---- MODULE Spec2Model ----
(***************************************************************************)
(* A model of the VPN control plane of renasami/my_vpn: the IP pool        *)
(* (internal/network), the WireGuard configuration file driver             *)
(* (internal/wireguard/server.go, config.go) and the client and server     *)
(* handlers of the Admin API (internal/api).                               *)
(***************************************************************************)
EXTENDS Integers, Sequences, FiniteSets, TLC

(***************************************************************************)
(* Bounds of the model.                                                    *)
(***************************************************************************)
\* The pool is built from a /(32 - HostBits) network: 3 host bits is 10.0.0.0/29.
HostBits == 3
\* Number of pool operations one behaviour of SpecPool performs.
MaxPoolOps == 7
\* Number of [Peer] lines the configuration file grows to.
MaxFilePeers == 3
\* Number of lines the configuration file of SpecWg grows to.
MaxFileLines == 16
\* Number of requests the Admin API receives in one behaviour of SpecApi.
MaxRequests == 4

(***************************************************************************)
(* Program constants.                                                      *)
(***************************************************************************)
DefaultListenPort == 51820
KeepaliveSeconds == 25

(***************************************************************************)
(* IP address strings.  The pool's map is keyed by the STRING a caller     *)
(* passes, so a string is modelled by its textual form and the address it  *)
(* parses to: "v4" is the dotted quad net.IP.String() prints, "mapped" is  *)
(* the IPv4-mapped spelling "::ffff:a.b.c.d" that net.ParseIP accepts for  *)
(* the same address, "bad" does not parse.  off is the address's distance  *)
(* from the network address.                                               *)
(***************************************************************************)
V4(off) == [form |-> "v4", off |-> off]
Mapped(off) == [form |-> "mapped", off |-> off]
BadIP == [form |-> "bad", off |-> 0]
NoIP == [form |-> "none", off |-> 0]

\* net.ParseIP: the address a string denotes, -1 (nil) when it does not parse.
ParseIP(ip) == IF ip.form \in {"v4", "mapped"} THEN ip.off ELSE -1

\* incrementIP on addresses of one network (no octet overflow past 2^32 here).
incrementIP(off, inc) == off + inc

MinHostBits == 3
NetworkSize == 2 ^ HostBits
\* NewIPPool rejects a network with fewer than MinHostBits host bits.
PoolConstructed == HostBits >= MinHostBits
totalHosts == NetworkSize - 2
NetworkOff == 0
BroadcastOff == NetworkSize - 1
networkAddress == V4(NetworkOff)
broadcastAddress == V4(BroadcastOff)
serverIP == V4(incrementIP(NetworkOff, 1))
\* ipNet.Contains
Contains(off) == off >= NetworkOff /\ off <= BroadcastOff
\* The allocated map of a freshly constructed pool: the server address alone.
NewIPPool_Empty == {}
NewIPPool == {serverIP}

VARIABLES
    allocated,   \* IPPool.allocated: the strings mapped to true
    mu,          \* IPPool.mu: the caller holding it, or NoCaller
    callerPc,    \* per pool caller: "idle" or "marking" (inside AllocateIP)
    scanned,     \* per pool caller: the address its AllocateIP scan found
    handedOut,   \* per address: AllocateIP returns of it since its last release
    lastPool,    \* the last completed pool call: its name, argument and error
    poolOps,     \* pool calls completed so far
    onlyAllocate, \* whether every pool call completed so far was AllocateIP
    run,         \* the current run of successful allocations followed by
                 \* releases of the addresses they returned
    file,        \* the text of <configDir>/<interfaceName>.conf, or NoFile
    wgLast,      \* the last completed driver call of SpecWg
    written,     \* the configuration SpecWg's last successful WriteConfig wrote
    rows,        \* the clients table: records of ID, PublicKey, IPAddress
    nextID,      \* the next primary key of the clients table
    nextKey,     \* the next key pair wireguard.GenerateKeyPair returns
    hasServerConfig, \* whether the server_configs table holds its row
    pc,          \* per request slot: the step its handler is at
    req,         \* per request slot: the handler's locals and its response
    requests,    \* requests received so far
    lastStep,    \* the handler step taken last: its slot and its name
    addFailed,   \* keys of persisted clients whose AddPeer returned an error
    added,       \* keys whose AddPeer returned nil since the file was last
                 \* rewritten by WriteConfig or RemovePeer
    reuse,       \* the latest AllocateIP of a create request, and what
                 \* happened to its address and its client since
    reusePrev,   \* the value of reuse when that AllocateIP was called
    alerts,      \* AlertManager.alerts: alert id -> Alert
    alertConfig, \* AlertManager.config
    lastEvalTime, \* AlertManager.lastEvalTime
    clock,       \* the value time.Now() returns, in hours
    ticks,       \* clock advances so far
    amLast,      \* the last completed alert manager call, its argument, the
                 \* time it read and the alert map it found
    amOps,       \* alert manager calls completed so far
    suppressedFrom, \* per suppressed alert: the status SuppressAlert found
    running,     \* Monitor.running
    stopCh,      \* Monitor.stopCh: "open" or "closed"
    cancelled,   \* the contexts passed to Start that have been cancelled
    tasks,       \* the monitorLoop goroutines spawned so far, in order
    monMetrics,  \* *Monitor.metrics: the current ServerMetrics
    arrays,      \* the backing arrays of the Alerts slices in use
    returned,    \* per caller: the ServerMetrics GetMetrics returned to it
    closes,      \* close(stopCh) calls executed so far
    panicked,    \* whether a close of the closed stopCh was executed
    stopped,     \* the goroutines spawned before the last Stop that returned nil
    monLast,     \* the last completed Monitor call
    monOps,      \* Monitor calls completed so far
    lmBuilt,     \* whether NewLogManagerWithConfig has returned the manager
    logConfig,   \* LogManager.config: LogLevel and BufferSize
    logBuffer,   \* LogManager.logBuffer: the entries, oldest first
    bufferSize,  \* LogManager.bufferSize
    logged,      \* every entry addToBuffer was given, oldest first
    resized,     \* whether UpdateConfig has changed bufferSize
    recent,      \* what the last GetRecentLogs returned
    lmLast,      \* the last completed LogManager call
    lmOps,       \* LogManager calls completed so far
    authClock,   \* the value time.Now() returns to the auth package
    issued,      \* the tokens generated: the string, and who generated it
                 \* for whom, when and with which lifetime
    generated,   \* GenerateToken calls completed so far
    authLast,    \* the last completed auth call: its manager, argument,
                 \* time and result
    authOps,     \* auth calls completed so far
    users,       \* the users table: records of ID, Username, Email
    nextUserID,  \* the next primary key of the users table
    regPc,       \* per request slot: the step its Register handler is at
    regReq,      \* per request slot: the RegisterRequest bound
    registers,   \* registration requests received so far
    regLast,     \* the registration step taken last, and its response
    created      \* per username: the Register requests answered 201

poolRest == <<mu, callerPc, scanned, handedOut, lastPool, poolOps, onlyAllocate, run>>
poolVars == <<allocated, mu, callerPc, scanned, handedOut, lastPool, poolOps,
              onlyAllocate, run>>
wgVars == <<file, wgLast, written>>
dbVars == <<rows, nextID, nextKey, hasServerConfig>>
ghostVars == <<addFailed, added, reuse, reusePrev>>
apiVars == <<rows, nextID, nextKey, hasServerConfig, pc, req, requests, lastStep,
             addFailed, added, reuse, reusePrev>>
alertVars == <<alerts, alertConfig, lastEvalTime, clock, ticks, amLast, amOps,
               suppressedFrom>>
monVars == <<running, stopCh, cancelled, tasks, monMetrics, arrays, returned,
             closes, panicked, stopped, monLast, monOps>>
logVars == <<lmBuilt, logConfig, logBuffer, bufferSize, logged, resized, recent,
             lmLast, lmOps>>
authVars == <<authClock, issued, generated, authLast, authOps>>
regVars == <<users, nextUserID, regPc, regReq, registers, regLast, created>>
extVars == <<logVars, authVars, regVars>>
vars == <<allocated, mu, callerPc, scanned, handedOut, lastPool, poolOps,
          onlyAllocate, run,
          file, wgLast, written, rows, nextID, nextKey, hasServerConfig, pc, req,
          requests, lastStep, addFailed, added, reuse, reusePrev,
          alerts, alertConfig, lastEvalTime, clock, ticks, amLast, amOps,
          suppressedFrom,
          running, stopCh, cancelled, tasks, monMetrics, arrays, returned,
          closes, panicked, stopped, monLast, monOps,
          lmBuilt, logConfig, logBuffer, bufferSize, logged, resized, recent,
          lmLast, lmOps,
          authClock, issued, generated, authLast, authOps,
          users, nextUserID, regPc, regReq, registers, regLast, created>>

Callers == {1, 2}
NoCaller == 0

\* The strings callers pass to AllocateSpecificIP and ReleaseIP: the dotted
\* quads of the network, server, first, second and last client, broadcast
\* and first outside address, the mapped spelling of the network, server and
\* first client address, and a malformed string.  ReleaseIP is also called
\* with every string the map holds.
InputIPs ==
    {V4(o) : o \in {NetworkOff, incrementIP(NetworkOff, 1), incrementIP(NetworkOff, 2),
                    incrementIP(NetworkOff, 3), BroadcastOff - 1, BroadcastOff,
                    BroadcastOff + 1}}
        \cup {Mapped(NetworkOff), Mapped(incrementIP(NetworkOff, 1)),
              Mapped(incrementIP(NetworkOff, 2)), BadIP}

\* The addresses AllocateIP can hand out.
ClientIPs == {V4(o) : o \in incrementIP(NetworkOff, 2)..(BroadcastOff - 1)}

(***************************************************************************)
(* IPPool.AllocateIP: the scan of the loop, from network+2 until the       *)
(* broadcast address, for the first string not in the map.                 *)
(***************************************************************************)
RECURSIVE ScanFrom(_, _)
ScanFrom(cur, alloc) ==
    IF cur = BroadcastOff THEN NoIP
    ELSE IF V4(cur) \notin alloc THEN V4(cur)
    ELSE ScanFrom(incrementIP(cur, 1), alloc)

AllocateIPScan_FromNetwork(alloc) == ScanFrom(NetworkOff, alloc)
AllocateIPScan(alloc) == ScanFrom(incrementIP(NetworkOff, 2), alloc)

\* sync.RWMutex.Lock succeeds only when nobody holds the mutex.
CanLock_NoMutex(m) == TRUE
CanLock(m) == m = NoCaller

(***************************************************************************)
(* IPPool.AllocateSpecificIP and IPPool.ReleaseIP: the error each returns  *)
(* ("ok" for nil), in the order the code tests.                            *)
(***************************************************************************)
AllocateSpecificIPErr(ip, alloc) ==
    IF ParseIP(ip) = -1 THEN "invalid IP address"
    ELSE IF ~Contains(ParseIP(ip)) THEN "IP address not in network range"
    ELSE IF ip = networkAddress THEN "cannot allocate network address"
    ELSE IF ip = broadcastAddress THEN "cannot allocate broadcast address"
    ELSE IF ip = serverIP THEN "IP address reserved for server"
    ELSE IF ip \in alloc THEN "IP address already allocated"
    ELSE "ok"

ReleaseIPErr_NoServerCheck(ip, alloc) ==
    IF ParseIP(ip) = -1 THEN "invalid IP address"
    ELSE IF ~Contains(ParseIP(ip)) THEN "IP address not in network range"
    ELSE IF ip \notin alloc THEN "IP address not allocated"
    ELSE "ok"
ReleaseIPErr(ip, alloc) ==
    IF ParseIP(ip) = -1 THEN "invalid IP address"
    ELSE IF ~Contains(ParseIP(ip)) THEN "IP address not in network range"
    ELSE IF ip \notin alloc THEN "IP address not allocated"
    ELSE IF ip = serverIP THEN "cannot release server IP"
    ELSE "ok"

\* The map after ReleaseIP(ip): delete(p.allocated, ip) when no error.
ReleaseIPMap_Keep(ip, alloc) == alloc
ReleaseIPMap(ip, alloc) ==
    IF ReleaseIPErr(ip, alloc) = "ok" THEN alloc \ {ip} ELSE alloc

\* IPPool.IsAllocated
IsAllocated(ip) == ip \in allocated

\* IPPool.GetAvailableCount, of the map alloc and of the pool's map.
AvailableCount(alloc) == totalHosts - 1 - (Cardinality(alloc) - 1)
GetAvailableCount == AvailableCount(allocated)

\* The run after a successful allocation of ip: it joins a run that has seen
\* no release yet, and starts a new run otherwise.
RunAllocated(ip, alloc) ==
    IF run.phase = "allocating"
    THEN [run EXCEPT !.out = @ \cup {ip}, !.n = @ + 1]
    ELSE [start |-> AvailableCount(alloc), out |-> {ip}, n |-> 1,
          phase |-> "allocating"]

\* The run after a successful release of ip: a release of an address the run
\* allocated continues it, any other release starts a new run.
RunReleased(ip, alloc) ==
    IF ip \in run.out
    THEN [run EXCEPT !.out = @ \ {ip}, !.phase = "releasing"]
    ELSE [start |-> AvailableCount(alloc \ {ip}), out |-> {}, n |-> 0,
          phase |-> "allocating"]

PoolInit ==
    /\ PoolConstructed
    /\ allocated = NewIPPool
    /\ mu = NoCaller
    /\ callerPc = [c \in Callers |-> "idle"]
    /\ scanned = [c \in Callers |-> NoIP]
    /\ handedOut = [ip \in ClientIPs |-> 0]
    /\ lastPool = [op |-> "NewIPPool", arg |-> NoIP, err |-> "ok"]
    /\ poolOps = 0
    /\ onlyAllocate = TRUE
    /\ run = [start |-> AvailableCount(NewIPPool), out |-> {}, n |-> 0,
              phase |-> "allocating"]

Min2(a, b) == IF a < b THEN a ELSE b

\* AllocateIP, first half: Lock, then the scan for a free address.
AllocateIPBegin(c) ==
    /\ callerPc[c] = "idle"
    /\ poolOps < MaxPoolOps
    /\ CanLock(mu)
    /\ mu' = c
    /\ scanned' = [scanned EXCEPT ![c] = AllocateIPScan(allocated)]
    /\ callerPc' = [callerPc EXCEPT ![c] = "marking"]
    /\ UNCHANGED <<allocated, handedOut, lastPool, poolOps, onlyAllocate, run>>

\* AllocateIP, second half: mark the address found, return, Unlock (deferred).
AllocateIPEnd(c) ==
    /\ callerPc[c] = "marking"
    /\ IF scanned[c] = NoIP
       THEN UNCHANGED <<allocated, handedOut>>
       ELSE /\ allocated' = allocated \cup {scanned[c]}
            /\ handedOut' = IF scanned[c] \in ClientIPs
                            THEN [handedOut EXCEPT ![scanned[c]] = Min2(@ + 1, 2)]
                            ELSE handedOut
    /\ lastPool' = [op |-> "AllocateIP", arg |-> scanned[c],
                    err |-> IF scanned[c] = NoIP
                            THEN "no available IP addresses in pool" ELSE "ok"]
    /\ mu' = NoCaller
    /\ scanned' = [scanned EXCEPT ![c] = NoIP]
    /\ callerPc' = [callerPc EXCEPT ![c] = "idle"]
    /\ poolOps' = poolOps + 1
    /\ run' = IF scanned[c] = NoIP THEN run ELSE RunAllocated(scanned[c], allocated)
    /\ UNCHANGED onlyAllocate

AllocateSpecificIP(c, ip) ==
    /\ callerPc[c] = "idle"
    /\ poolOps < MaxPoolOps
    /\ CanLock(mu)
    /\ allocated' = IF AllocateSpecificIPErr(ip, allocated) = "ok"
                    THEN allocated \cup {ip} ELSE allocated
    /\ lastPool' = [op |-> "AllocateSpecificIP", arg |-> ip,
                    err |-> AllocateSpecificIPErr(ip, allocated)]
    /\ poolOps' = poolOps + 1
    /\ onlyAllocate' = FALSE
    /\ run' = IF AllocateSpecificIPErr(ip, allocated) = "ok"
              THEN RunAllocated(ip, allocated) ELSE run
    /\ UNCHANGED <<mu, callerPc, scanned, handedOut>>

ReleaseIP(c, ip) ==
    /\ callerPc[c] = "idle"
    /\ poolOps < MaxPoolOps
    /\ CanLock(mu)
    /\ allocated' = ReleaseIPMap(ip, allocated)
    /\ lastPool' = [op |-> "ReleaseIP", arg |-> ip,
                    err |-> ReleaseIPErr(ip, allocated)]
    /\ handedOut' = IF ReleaseIPErr(ip, allocated) = "ok" /\ ip \in ClientIPs
                    THEN [handedOut EXCEPT ![ip] = 0] ELSE handedOut
    /\ poolOps' = poolOps + 1
    /\ onlyAllocate' = FALSE
    /\ run' = IF ReleaseIPErr(ip, allocated) = "ok"
              THEN RunReleased(ip, allocated) ELSE run
    /\ UNCHANGED <<mu, callerPc, scanned>>

PoolNext ==
    /\ \E c \in Callers :
        \/ AllocateIPBegin(c)
        \/ AllocateIPEnd(c)
        \/ \E ip \in InputIPs : AllocateSpecificIP(c, ip)
        \/ \E ip \in InputIPs \cup allocated : ReleaseIP(c, ip)
    /\ UNCHANGED <<wgVars, apiVars, alertVars, monVars, extVars>>

(***************************************************************************)
(* The WireGuard configuration file.  The text is a sequence of lines and  *)
(* a flag nl telling whether the last line ends in a newline; the empty    *)
(* text is <<>> with nl = TRUE.  A line is its key and its value: the      *)
(* section headers "[Interface]" and "[Peer]", the blank line "", and      *)
(* "Key = value" lines.  Public keys and endpoints are positive numbers,   *)
(* 0 standing for the empty string.                                        *)
(***************************************************************************)
NoFile == [lines |-> <<>>, nl |-> FALSE, exists |-> FALSE]
Text(ls, nl) == [lines |-> ls, nl |-> nl, exists |-> TRUE]
EmptyText == Text(<<>>, TRUE)

Line(k, v) == [key |-> k, val |-> v]
BlankLine == Line("", 0)
PeerHeader == Line("[Peer]", 0)
InterfaceHeader == Line("[Interface]", 0)

\* The empty string as an element of an AllowedIPs list.
EmptyItem == [form |-> "empty", off |-> 0]

\* strings.Join(ips, ", ") and the strings.Split(value, ",") with TrimSpace
\* that reads it back: the text of a list is the list itself, except that
\* the empty text splits into one empty item.
JoinIPs(ips) == ips
SplitIPs(value) == IF value = <<>> THEN <<EmptyItem>> ELSE value

\* ServerConfig.GenerateConfigFile: the [Interface] section, no peers.
GenerateConfigFile(sc) ==
    Text(<<InterfaceHeader,
           Line("PrivateKey", sc.PrivateKey),
           Line("Address", sc.Address),
           Line("ListenPort", sc.ListenPort)>>
         \o [i \in 1..Len(sc.PostUp) |-> Line("PostUp", sc.PostUp[i])]
         \o [i \in 1..Len(sc.PostDown) |-> Line("PostDown", sc.PostDown[i])],
         TRUE)

\* The lines of AddPeer's peerConfig after its leading "\n".
PeerConfig(peer) ==
    <<PeerHeader,
      Line("PublicKey", peer.PublicKey),
      Line("AllowedIPs", JoinIPs(peer.AllowedIPs))>>
    \o (IF peer.Endpoint # 0 THEN <<Line("Endpoint", peer.Endpoint)>> ELSE <<>>)
    \o (IF peer.PersistentKA > 0
        THEN <<Line("PersistentKeepalive", peer.PersistentKA)>> ELSE <<>>)

\* WireGuardServer.AddPeer: string(content) + peerConfig.  The leading "\n"
\* ends the last line when the text does not end in a newline, and is a
\* blank line otherwise.
AddPeerContent(content, peer) ==
    Text(content.lines
            \o (IF content.nl THEN <<BlankLine>> ELSE <<>>)
            \o PeerConfig(peer),
         TRUE)

\* bufio.Scanner over the file: its lines, without a final empty one.
ScanLines(content) == content.lines

\* strings.Join(newLines, "\n") as a text.
JoinLines(ls) ==
    IF ls = <<>> THEN EmptyText
    ELSE IF ls[Len(ls)] = BlankLine THEN Text(SubSeq(ls, 1, Len(ls) - 1), TRUE)
    ELSE Text(ls, FALSE)

IsPeerHeader(line) == line.key = "[Peer]"
StartsWithBracket(line) == line.key \in {"[Peer]", "[Interface]"}
IsBlank(line) == line.key = ""
\* strings.HasPrefix(TrimSpace(line), "PublicKey = ") and
\* strings.Contains(line, publicKey), for keys none of which is part of
\* another or of the text "PublicKey = ".
IsPublicKeyOf_Never(line, publicKey) == FALSE
IsPublicKeyOf(line, publicKey) == line.key = "PublicKey" /\ line.val = publicKey

(***************************************************************************)
(* WireGuardServer.RemovePeer.  RemoveInner is the look-ahead loop run at  *)
(* a [Peer] line: it returns the lines still to scan, the lines read       *)
(* (tempLines) and skipPeerSection.  On a blank line or a "[" line it      *)
(* replaces the scanner by one over that line alone.                       *)
(***************************************************************************)
RECURSIVE RemoveInner(_, _, _)
RemoveInner(rest, temp, publicKey) ==
    IF rest = <<>> THEN [rest |-> <<>>, temp |-> temp, skip |-> FALSE]
    ELSE LET nextLine == Head(rest)
             t == Append(temp, nextLine)
         IN  IF IsPublicKeyOf(nextLine, publicKey)
             THEN [rest |-> Tail(rest), temp |-> t, skip |-> TRUE]
             ELSE IF StartsWithBracket(nextLine) \/ IsBlank(nextLine)
             THEN [rest |-> <<nextLine>>, temp |-> t, skip |-> FALSE]
             ELSE RemoveInner(Tail(rest), t, publicKey)

RECURSIVE RemoveOuter(_, _, _, _)
RemoveOuter(rest, newLines, skipPeerSection, publicKey) ==
    IF rest = <<>> THEN newLines
    ELSE LET line == Head(rest) IN
         IF IsPeerHeader(line)
         THEN LET r == RemoveInner(Tail(rest), <<line>>, publicKey)
              IN  RemoveOuter(r.rest,
                              IF r.skip THEN newLines ELSE newLines \o r.temp,
                              r.skip, publicKey)
         ELSE RemoveOuter(Tail(rest),
                          IF skipPeerSection THEN newLines
                          ELSE Append(newLines, line),
                          skipPeerSection
                              /\ ~(StartsWithBracket(line) \/ IsBlank(line)),
                          publicKey)

RemovePeerContent(content, publicKey) ==
    JoinLines(RemoveOuter(ScanLines(content), <<>>, FALSE, publicKey))

(***************************************************************************)
(* WireGuardServer.GetPeers: the peers of the text in file order.  A peer  *)
(* is appended when the next [Peer] line or the end of the text is reached *)
(* and its PublicKey is not empty.                                         *)
(***************************************************************************)
NoPeer == [PublicKey |-> -1, AllowedIPs |-> <<>>, Endpoint |-> 0, PersistentKA |-> 0]
NewPeer == [PublicKey |-> 0, AllowedIPs |-> <<>>, Endpoint |-> 0, PersistentKA |-> 0]

SetField(peer, line) ==
    IF line.key = "PublicKey" THEN [peer EXCEPT !.PublicKey = line.val]
    ELSE IF line.key = "AllowedIPs" THEN [peer EXCEPT !.AllowedIPs = SplitIPs(line.val)]
    ELSE IF line.key = "Endpoint" THEN [peer EXCEPT !.Endpoint = line.val]
    ELSE IF line.key = "PersistentKeepalive" THEN [peer EXCEPT !.PersistentKA = line.val]
    ELSE peer

Flush(peers, currentPeer) ==
    IF currentPeer # NoPeer /\ currentPeer.PublicKey # 0
    THEN Append(peers, currentPeer) ELSE peers

RECURSIVE ParsePeers(_, _, _)
ParsePeers(rest, peers, currentPeer) ==
    IF rest = <<>> THEN <<peers, currentPeer>>
    ELSE LET line == Head(rest) IN
         IF IsBlank(line) THEN ParsePeers(Tail(rest), peers, currentPeer)
         ELSE IF IsPeerHeader(line)
         THEN ParsePeers(Tail(rest), Flush(peers, currentPeer), NewPeer)
         ELSE IF currentPeer # NoPeer /\ line.key # "[Interface]"
         THEN ParsePeers(Tail(rest), peers, SetField(currentPeer, line))
         ELSE ParsePeers(Tail(rest), peers, currentPeer)

GetPeers_DropsLast(content) ==
    IF ~content.exists THEN <<>>
    ELSE ParsePeers(content.lines, <<>>, NoPeer)[1]
GetPeers(content) ==
    IF ~content.exists THEN <<>>
    ELSE LET r == ParsePeers(content.lines, <<>>, NoPeer)
         IN  Flush(r[1], r[2])

\* How many peers of the list have p's PublicKey and AllowedIPs.
Occurrences(peers, p) ==
    Cardinality({i \in 1..Len(peers) :
                    /\ peers[i].PublicKey = p.PublicKey
                    /\ peers[i].AllowedIPs = p.AllowedIPs})

(***************************************************************************)
(* WireGuardServer.GetConfig: every "Key = value" line of the text, in any *)
(* section, sets the field of its key; the last such line wins.            *)
(***************************************************************************)
NoConfig == [PrivateKey |-> 0, Address |-> NoIP, ListenPort |-> 0]

SetConfigField(config, line) ==
    IF line.key = "PrivateKey" THEN [config EXCEPT !.PrivateKey = line.val]
    ELSE IF line.key = "ListenPort" THEN [config EXCEPT !.ListenPort = line.val]
    ELSE IF line.key = "Address" THEN [config EXCEPT !.Address = line.val]
    ELSE config

RECURSIVE ParseConfig(_, _)
ParseConfig(rest, config) ==
    IF rest = <<>> THEN config
    ELSE ParseConfig(Tail(rest), SetConfigField(config, Head(rest)))

GetConfig_FirstLineOnly(content) ==
    ParseConfig(SubSeq(content.lines, 1, 2), NoConfig)
GetConfig(content) == ParseConfig(content.lines, NoConfig)

PeerSections(content) ==
    Cardinality({i \in 1..Len(content.lines) : IsPeerHeader(content.lines[i])})

(***************************************************************************)
(* The driver called by one caller at a time (SpecWg).  Every call may     *)
(* fail on IO (ioOk = FALSE) and then leaves the file alone.               *)
(***************************************************************************)
\* The server configurations written: the one of the driver's tests and
\* the one ServerAPI.convertToWireGuardConfig builds.
ServerConfigs ==
    {[PrivateKey |-> 1, Address |-> serverIP, ListenPort |-> DefaultListenPort,
      PostUp |-> <<>>, PostDown |-> <<>>],
     [PrivateKey |-> 2, Address |-> serverIP, ListenPort |-> DefaultListenPort + 1,
      PostUp |-> <<"FORWARD", "MASQUERADE">>,
      PostDown |-> <<"FORWARD", "MASQUERADE">>]}

\* The peers added: well-formed peers, with a PublicKey and at least one
\* allowed address; two of them share a key, one has every optional field.
WgPeers ==
    {[PublicKey |-> 1, AllowedIPs |-> <<V4(2)>>, Endpoint |-> 0, PersistentKA |-> 0],
     [PublicKey |-> 1, AllowedIPs |-> <<V4(3)>>, Endpoint |-> 0, PersistentKA |-> 0],
     [PublicKey |-> 2, AllowedIPs |-> <<V4(3)>>, Endpoint |-> 7,
      PersistentKA |-> KeepaliveSeconds],
     [PublicKey |-> 3, AllowedIPs |-> <<V4(2), V4(3)>>, Endpoint |-> 0,
      PersistentKA |-> 0]}
WgKeys == {1, 2, 3, 4}

WgInit ==
    /\ file = NoFile
    /\ wgLast = [op |-> "none", peer |-> NoPeer, err |-> FALSE, before |-> 0,
                 fileBefore |-> NoFile]
    /\ written = NoConfig

WgWriteConfig(sc, ioOk) ==
    /\ file' = IF ioOk THEN GenerateConfigFile(sc) ELSE file
    /\ written' = IF ioOk THEN sc ELSE written
    /\ wgLast' = [op |-> "WriteConfig", peer |-> NoPeer, err |-> ~ioOk, before |-> 0,
                  fileBefore |-> NoFile]

WgAddPeer(peer, ioOk) ==
    /\ PeerSections(file) < MaxFilePeers
    /\ Len(file.lines) < MaxFileLines
    /\ file' = IF file.exists /\ ioOk THEN AddPeerContent(file, peer) ELSE file
    /\ wgLast' = [op |-> "AddPeer", peer |-> peer, err |-> ~(file.exists /\ ioOk),
                  before |-> Occurrences(GetPeers(file), peer),
                  fileBefore |-> NoFile]
    /\ UNCHANGED written

WgRemovePeer(publicKey, ioOk) ==
    /\ file' = IF file.exists /\ ioOk THEN RemovePeerContent(file, publicKey) ELSE file
    /\ wgLast' = [op |-> "RemovePeer", peer |-> [NoPeer EXCEPT !.PublicKey = publicKey],
                  err |-> ~(file.exists /\ ioOk), before |-> 0,
                  fileBefore |-> file]
    /\ UNCHANGED written

WgNext ==
    /\ \E ok \in BOOLEAN :
        \/ \E sc \in ServerConfigs : WgWriteConfig(sc, ok)
        \/ \E peer \in WgPeers : WgAddPeer(peer, ok)
        \/ \E publicKey \in WgKeys : WgRemovePeer(publicKey, ok)
    /\ UNCHANGED <<poolVars, apiVars, alertVars, monVars, extVars>>

(***************************************************************************)
(* The Admin API: ClientAPI.CreateClient, ClientAPI.DeleteClient and       *)
(* ServerAPI.StartServer, served by concurrent goroutines (SpecApi).  A    *)
(* handler is split where it reaches the pool, the database or the         *)
(* configuration file; each pool call is one step because it runs under    *)
(* IPPool.mu.  Database calls, file IO, key generation and wg-quick may    *)
(* fail.                                                                   *)
(***************************************************************************)
Procs == {1, 2}

NoRequest ==
    [kind |-> "none", id |-> 0, key |-> 0, ip |-> NoIP, content |-> NoFile,
     status |-> "none", found |-> FALSE, rmErr |-> FALSE, relErr |-> FALSE,
     deleteErr |-> FALSE, allocBefore |-> {}, alone |-> FALSE, pending |-> {}]

NoReuse == [ip |-> NoIP, owner |-> 0, id |-> 0, deleted |-> FALSE,
            otherRelease |-> FALSE]

\* clientIP + "/32"
Slash32(ip) == [form |-> "v4/32", off |-> ip.off]
\* fmt.Sprintf("%s/24", networkInfo.ServerIP)
Slash24(ip) == [form |-> "v4/24", off |-> ip.off]

\* The wireguard.Peer CreateClient passes to AddPeer.
ClientPeer(key, ip) ==
    [PublicKey |-> key, AllowedIPs |-> <<Slash32(ip)>>, Endpoint |-> 0,
     PersistentKA |-> 0]

\* ServerAPI.convertToWireGuardConfig of the row getOrCreateServerConfig
\* creates.
convertToWireGuardConfig ==
    [PrivateKey |-> 0, Address |-> Slash24(serverIP),
     ListenPort |-> DefaultListenPort,
     PostUp |-> <<"FORWARD", "MASQUERADE">>,
     PostDown |-> <<"FORWARD", "MASQUERADE">>]

\* The public keys of a peer list.
Keys(peers) == {peers[i].PublicKey : i \in 1..Len(peers)}

\* Database.CreateClient: the insert fails on a database error and on the
\* unique indexes of public_key and ip_address.
InsertOk(dbOk, key, ip) ==
    dbOk /\ ~\E r \in rows : r.PublicKey = key \/ r.IPAddress = ip

\* CreateClient on a failed insert: api.ipPool.ReleaseIP(clientIP).
CreateClientRollbackPool_NoRelease(ip, alloc) == alloc
CreateClientRollbackPool(ip, alloc) == ReleaseIPMap(ip, alloc)

\* DeleteClient after RemovePeer returned err: the error is ignored and the
\* handler goes on to ReleaseIP.
DeleteClientAfterRemovePeer_Abort(err) == IF err THEN "abort" ELSE "release"
DeleteClientAfterRemovePeer(err) == "release"

\* A handler step that is not its last.
Step(p, name) == lastStep' = [proc |-> p, name |-> name, req |-> NoRequest]

\* The last step of a handler: it answers with a status and returns; its
\* slot is free again.  lastStep keeps the request as it ended.
Respond(rq, p, name, r, status) ==
    /\ lastStep' = [proc |-> p, name |-> name,
                    req |-> [r EXCEPT !.status = status, !.content = NoFile]]
    /\ req' = [rq EXCEPT ![p] = NoRequest]
    /\ pc' = [pc EXCEPT ![p] = "idle"]

\* The in-flight create requests other than q's see the pool change.
Disturb(q, rq) ==
    [p \in Procs |->
        IF p # q /\ pc[p] \in {"persist", "rollback"}
        THEN [rq[p] EXCEPT !.alone = FALSE] ELSE rq[p]]

ApiInit ==
    /\ rows = {}
    /\ nextID = 1
    /\ nextKey = 1
    /\ hasServerConfig = FALSE
    /\ pc = [p \in Procs |-> "idle"]
    /\ req = [p \in Procs |-> NoRequest]
    /\ requests = 0
    /\ lastStep = [proc |-> 0, name |-> "none", req |-> NoRequest]
    /\ addFailed = {}
    /\ added = {}
    /\ reuse = NoReuse
    /\ reusePrev = NoReuse

\* A request is served by the first free slot.
Free(p) ==
    /\ pc[p] = "idle"
    /\ \A q \in Procs : q < p => pc[q] # "idle"
    /\ requests < MaxRequests

\* CreateClient up to AllocateIP: ShouldBindJSON, GenerateKeyPair, AllocateIP.
CreateClientAllocate(p, bindOk, keyOk) ==
    /\ Free(p)
    /\ requests' = requests + 1
    /\ LET clientIP == AllocateIPScan(allocated)
           name == "CreateClientAllocate"
           r == [NoRequest EXCEPT !.kind = "create"]
       IN  IF ~bindOk
           THEN /\ Respond(req, p, name, r, "StatusBadRequest")
                /\ UNCHANGED <<allocated, nextKey, reuse, reusePrev>>
           ELSE IF ~keyOk
           THEN /\ Respond(req, p, name, r, "StatusInternalServerError")
                /\ UNCHANGED <<allocated, nextKey, reuse, reusePrev>>
           ELSE IF clientIP = NoIP
           THEN /\ Respond(req, p, name, r, "StatusInternalServerError")
                /\ nextKey' = nextKey + 1
                /\ UNCHANGED <<allocated, reuse, reusePrev>>
           ELSE /\ Step(p, name)
                /\ allocated' = allocated \cup {clientIP}
                /\ nextKey' = nextKey + 1
                /\ req' = [Disturb(p, req) EXCEPT ![p] =
                              [r EXCEPT !.key = nextKey, !.ip = clientIP,
                                        !.allocBefore = allocated, !.alone = TRUE]]
                /\ pc' = [pc EXCEPT ![p] = "persist"]
                /\ reusePrev' = IF reuse.deleted THEN reuse ELSE NoReuse
                /\ reuse' = [NoReuse EXCEPT !.ip = clientIP, !.owner = p]
    /\ UNCHANGED <<file, rows, nextID, hasServerConfig, addFailed, added>>

\* CreateClient: api.db.CreateClient(client).
CreateClientPersist(p, dbOk) ==
    /\ pc[p] = "persist"
    /\ Step(p, "CreateClientPersist")
    /\ IF InsertOk(dbOk, req[p].key, req[p].ip)
       THEN /\ rows' = rows \cup {[ID |-> nextID, PublicKey |-> req[p].key,
                                   IPAddress |-> req[p].ip]}
            /\ nextID' = nextID + 1
            /\ req' = [req EXCEPT ![p] = [@ EXCEPT !.id = nextID, !.allocBefore = {},
                                                   !.alone = FALSE]]
            /\ pc' = [pc EXCEPT ![p] = "addPeer"]
            /\ reuse' = IF reuse.owner = p
                        THEN [reuse EXCEPT !.id = nextID, !.owner = 0] ELSE reuse
       ELSE /\ pc' = [pc EXCEPT ![p] = "rollback"]
            /\ UNCHANGED <<rows, nextID, req, reuse>>
    /\ UNCHANGED <<allocated, file, nextKey, hasServerConfig, requests, addFailed,
                   added, reusePrev>>

\* CreateClient after a failed insert: ReleaseIP(clientIP), then the 500.
CreateClientRollback(p) ==
    /\ pc[p] = "rollback"
    /\ allocated' = CreateClientRollbackPool(req[p].ip, allocated)
    /\ Respond(Disturb(p, req), p, "CreateClientRollback", req[p],
               "StatusInternalServerError")
    /\ reuse' = IF reuse.owner = p THEN NoReuse
                ELSE IF ReleaseIPErr(req[p].ip, allocated) # "ok" THEN reuse
                ELSE [reuse EXCEPT !.otherRelease = TRUE]
    /\ UNCHANGED <<file, dbVars, requests, addFailed, added, reusePrev>>

\* CreateClient: AddPeer's os.ReadFile.  An error of AddPeer is ignored and
\* the handler answers 201.
CreateClientAddPeerRead(p, ioOk) ==
    /\ pc[p] = "addPeer"
    /\ IF file.exists /\ ioOk
       THEN /\ Step(p, "CreateClientAddPeerRead")
            /\ req' = [req EXCEPT ![p] = [@ EXCEPT !.content = file]]
            /\ pc' = [pc EXCEPT ![p] = "addPeerWrite"]
            /\ UNCHANGED addFailed
       ELSE /\ Respond(req, p, "CreateClientAddPeerRead", req[p], "StatusCreated")
            /\ addFailed' = addFailed \cup {req[p].key}
    /\ UNCHANGED <<allocated, file, dbVars, requests, added, reuse, reusePrev>>

\* CreateClient: AddPeer's os.WriteFile of the text read plus the peer.
CreateClientAddPeerWrite(p, ioOk) ==
    /\ pc[p] = "addPeerWrite"
    /\ IF ioOk
       THEN /\ file' = AddPeerContent(req[p].content,
                                      ClientPeer(req[p].key, req[p].ip))
            /\ added' = added \cup {req[p].key}
            /\ UNCHANGED addFailed
       ELSE /\ addFailed' = addFailed \cup {req[p].key}
            /\ UNCHANGED <<file, added>>
    /\ Respond(req, p, "CreateClientAddPeerWrite", req[p], "StatusCreated")
    /\ UNCHANGED <<allocated, dbVars, requests, reuse, reusePrev>>

\* DeleteClient up to GetClient: ParseUint of the id, api.db.GetClient.
DeleteClientGet(p, id, idOk, dbOk) ==
    /\ Free(p)
    /\ requests' = requests + 1
    /\ LET name == "DeleteClientGet"
           r == [NoRequest EXCEPT !.kind = "delete", !.id = id]
       IN  IF ~idOk
           THEN Respond(req, p, name, [r EXCEPT !.id = 0], "StatusBadRequest")
           ELSE IF ~dbOk
           THEN Respond(req, p, name, r, "StatusInternalServerError")
           ELSE IF ~\E row \in rows : row.ID = id
           THEN Respond(req, p, name, r, "StatusNotFound")
           ELSE LET client == CHOOSE row \in rows : row.ID = id
                IN  /\ Step(p, name)
                    /\ req' = [req EXCEPT ![p] =
                                  [r EXCEPT !.key = client.PublicKey,
                                            !.ip = client.IPAddress,
                                            !.found = TRUE]]
                    /\ pc' = [pc EXCEPT ![p] = "removePeer"]
    /\ UNCHANGED <<allocated, file, dbVars, ghostVars>>

\* The step after RemovePeer returned: ReleaseIP, the error being ignored.
AfterRemovePeer(p, name, err) ==
    IF DeleteClientAfterRemovePeer(err) = "release"
    THEN /\ Step(p, name)
         /\ req' = [req EXCEPT ![p] = [@ EXCEPT !.rmErr = err, !.content = NoFile]]
         /\ pc' = [pc EXCEPT ![p] = "release"]
    ELSE Respond(req, p, name, [req[p] EXCEPT !.rmErr = err],
                 "StatusInternalServerError")

\* DeleteClient: RemovePeer's os.Open and scan of the file.
DeleteClientRemovePeerRead(p, ioOk) ==
    /\ pc[p] = "removePeer"
    /\ IF file.exists /\ ioOk
       THEN /\ Step(p, "DeleteClientRemovePeerRead")
            /\ req' = [req EXCEPT ![p] = [@ EXCEPT !.content = file]]
            /\ pc' = [pc EXCEPT ![p] = "removePeerWrite"]
       ELSE AfterRemovePeer(p, "DeleteClientRemovePeerRead", TRUE)
    /\ UNCHANGED <<allocated, file, dbVars, requests, ghostVars>>

\* DeleteClient: RemovePeer's os.WriteFile of the lines kept.
DeleteClientRemovePeerWrite(p, ioOk) ==
    /\ pc[p] = "removePeerWrite"
    /\ file' = IF ioOk THEN RemovePeerContent(req[p].content, req[p].key) ELSE file
    /\ added' = IF ioOk THEN {} ELSE added
    /\ AfterRemovePeer(p, "DeleteClientRemovePeerWrite", ~ioOk)
    /\ UNCHANGED <<allocated, dbVars, requests, addFailed, reuse, reusePrev>>

\* DeleteClient: api.ipPool.ReleaseIP(client.IPAddress), the error ignored.
DeleteClientReleaseIP(p) ==
    /\ pc[p] = "release"
    /\ Step(p, "DeleteClientReleaseIP")
    /\ allocated' = ReleaseIPMap(req[p].ip, allocated)
    /\ req' = [Disturb(p, req) EXCEPT ![p] =
                  [@ EXCEPT !.relErr = ReleaseIPErr(req[p].ip, allocated) # "ok"]]
    /\ pc' = [pc EXCEPT ![p] = "delete"]
    /\ reuse' = IF ReleaseIPErr(req[p].ip, allocated) # "ok" THEN reuse
                ELSE IF reuse.id # 0 /\ reuse.id = req[p].id THEN reuse
                ELSE [reuse EXCEPT !.otherRelease = TRUE]
    /\ UNCHANGED <<file, dbVars, requests, addFailed, added, reusePrev>>

\* DeleteClient: api.db.DeleteClient(id), then 204, or 500 on its error.
DeleteClientDelete(p, dbOk) ==
    /\ pc[p] = "delete"
    /\ rows' = IF dbOk THEN {row \in rows : row.ID # req[p].id} ELSE rows
    /\ Respond(req, p, "DeleteClientDelete", [req[p] EXCEPT !.deleteErr = ~dbOk],
               IF dbOk THEN "StatusNoContent" ELSE "StatusInternalServerError")
    /\ reuse' = IF dbOk /\ reuse.id # 0 /\ reuse.id = req[p].id
                THEN [reuse EXCEPT !.deleted = TRUE] ELSE reuse
    /\ addFailed' = IF dbOk THEN addFailed \ {req[p].key} ELSE addFailed
    /\ UNCHANGED <<allocated, file, nextID, nextKey, hasServerConfig, requests,
                   added, reusePrev>>

\* StartServer up to WriteConfig: getOrCreateServerConfig,
\* convertToWireGuardConfig, wgServer.WriteConfig.
StartServerWriteConfig(p, dbOk, ioOk) ==
    /\ Free(p)
    /\ requests' = requests + 1
    /\ LET name == "StartServerWriteConfig"
           r == [NoRequest EXCEPT !.kind = "start"]
       IN  IF ~dbOk
           THEN /\ Respond(req, p, name, r, "StatusInternalServerError")
                /\ UNCHANGED <<file, hasServerConfig, added>>
           ELSE IF ~ioOk
           THEN /\ Respond(req, p, name, r, "StatusInternalServerError")
                /\ hasServerConfig' = TRUE
                /\ UNCHANGED <<file, added>>
           ELSE /\ Step(p, name)
                /\ file' = GenerateConfigFile(convertToWireGuardConfig)
                /\ hasServerConfig' = TRUE
                /\ added' = {}
                /\ req' = [req EXCEPT ![p] = [r EXCEPT !.pending = addFailed]]
                /\ pc' = [pc EXCEPT ![p] = "start"]
    /\ UNCHANGED <<allocated, rows, nextID, nextKey, addFailed, reuse, reusePrev>>

\* StartServer: wgServer.Start (the file must exist, then wg-quick up).
StartServerStart(p, upOk) ==
    /\ pc[p] = "start"
    /\ Respond(req, p, "StartServerStart", req[p],
               IF file.exists /\ upOk THEN "StatusOK"
               ELSE "StatusInternalServerError")
    /\ UNCHANGED <<allocated, file, dbVars, requests, ghostVars>>

ApiNext ==
    /\ \E p \in Procs :
        \/ \E bindOk \in BOOLEAN, keyOk \in BOOLEAN : CreateClientAllocate(p, bindOk, keyOk)
        \/ \E dbOk \in BOOLEAN : CreateClientPersist(p, dbOk)
        \/ CreateClientRollback(p)
        \/ \E ioOk \in BOOLEAN : CreateClientAddPeerRead(p, ioOk)
        \/ \E ioOk \in BOOLEAN : CreateClientAddPeerWrite(p, ioOk)
        \/ \E id \in 1..nextID, idOk \in BOOLEAN, dbOk \in BOOLEAN :
              DeleteClientGet(p, id, idOk, dbOk)
        \/ \E ioOk \in BOOLEAN : DeleteClientRemovePeerRead(p, ioOk)
        \/ \E ioOk \in BOOLEAN : DeleteClientRemovePeerWrite(p, ioOk)
        \/ DeleteClientReleaseIP(p)
        \/ \E dbOk \in BOOLEAN : DeleteClientDelete(p, dbOk)
        \/ \E dbOk \in BOOLEAN, ioOk \in BOOLEAN : StartServerWriteConfig(p, dbOk, ioOk)
        \/ \E upOk \in BOOLEAN : StartServerStart(p, upOk)
    /\ UNCHANGED <<poolRest, wgLast, written, alertVars, monVars, extVars>>


\* ---------------------------------------------------------------------
\* The alert manager (package monitoring).  Times are whole hours.  An
\* Alert keeps the fields the manager reads or changes after creation;
\* Title and Description are written once at creation and never read.

MaxAlertOps == 3
MaxTicks == 2

Hours24 == 24
NoTime == -1

ClockSteps == {1, Hours24}
SuppressDurations == {1, Hours24}
AlertIDs == {"system_cpu_high", "network_ip_pool_high"}

NoAlerts == [id \in {} |-> NoTime]

DefaultAlertConfig ==
    [CPUThreshold |-> 80, MemoryThreshold |-> 85, DiskThreshold |-> 90,
     ConnectionThreshold |-> 1000, ResponseTimeThreshold |-> 5,
     ErrorRateThreshold |-> 5, EnableAlerts |-> TRUE]

AlertConfigs ==
    {DefaultAlertConfig, [DefaultAlertConfig EXCEPT !.EnableAlerts = FALSE]}

\* The metrics of one sample: the CPU usage and the pool utilisation vary,
\* the other seven readings are those of a quiet host.
MetricsInputs ==
    {[CPUUsage |-> c, MemoryUsage |-> 0, DiskUsage |-> 0,
      IPPoolUtilization |-> u, FirewallEnabled |-> TRUE, FailedLogins |-> 0,
      ActiveClients |-> 0, ResponseTime |-> 0, ErrorRate |-> 0] :
        c \in {50, 90}, u \in {50, 92, 97}}

createOrUpdateAlert_NoCount(a, id, alertType, severity, now, metadata) ==
    IF id \in DOMAIN a
    THEN [a EXCEPT ![id].UpdatedAt = now,
                   ![id].Metadata = metadata @@ @]
    ELSE (id :> [ID |-> id, Type |-> alertType, Severity |-> severity,
                 CreatedAt |-> now, UpdatedAt |-> now, ResolvedAt |-> NoTime,
                 Status |-> "active", Metadata |-> metadata, Count |-> 1]) @@ a

createOrUpdateAlert(a, id, alertType, severity, now, metadata) ==
    IF id \in DOMAIN a
    THEN [a EXCEPT ![id].UpdatedAt = now,
                   ![id].Count = @ + 1,
                   ![id].Metadata = metadata @@ @]
    ELSE (id :> [ID |-> id, Type |-> alertType, Severity |-> severity,
                 CreatedAt |-> now, UpdatedAt |-> now, ResolvedAt |-> NoTime,
                 Status |-> "active", Metadata |-> metadata, Count |-> 1]) @@ a

resolveAlert_KeepsStatus(a, id, now) ==
    IF id \in DOMAIN a /\ a[id].Status = "active"
    THEN [a EXCEPT ![id].ResolvedAt = now, ![id].UpdatedAt = now]
    ELSE a

resolveAlert(a, id, now) ==
    IF id \in DOMAIN a /\ a[id].Status = "active"
    THEN [a EXCEPT ![id].Status = "resolved",
                   ![id].ResolvedAt = now,
                   ![id].UpdatedAt = now]
    ELSE a

evaluateSystemAlerts(a, stats, cfg, now) ==
    LET cpu == IF stats.CPUUsage > cfg.CPUThreshold
               THEN createOrUpdateAlert(a, "system_cpu_high", "system", "high", now,
                        [cpu_usage |-> stats.CPUUsage, threshold |-> cfg.CPUThreshold])
               ELSE resolveAlert(a, "system_cpu_high", now)
        mem == IF stats.MemoryUsage > cfg.MemoryThreshold
               THEN createOrUpdateAlert(cpu, "system_memory_high", "system", "high", now,
                        [memory_usage |-> stats.MemoryUsage, threshold |-> cfg.MemoryThreshold])
               ELSE resolveAlert(cpu, "system_memory_high", now)
    IN  IF stats.DiskUsage > cfg.DiskThreshold
        THEN createOrUpdateAlert(mem, "system_disk_high", "system", "critical", now,
                 [disk_usage |-> stats.DiskUsage, threshold |-> cfg.DiskThreshold])
        ELSE resolveAlert(mem, "system_disk_high", now)

evaluateNetworkAlerts(a, stats, now) ==
    IF stats.IPPoolUtilization > 90
    THEN createOrUpdateAlert(a, "network_ip_pool_high", "network",
             IF stats.IPPoolUtilization > 95 THEN "high" ELSE "medium", now,
             [utilization |-> stats.IPPoolUtilization])
    ELSE resolveAlert(a, "network_ip_pool_high", now)

evaluateSecurityAlerts(a, stats, now) ==
    LET fw == IF ~stats.FirewallEnabled
              THEN createOrUpdateAlert(a, "security_firewall_disabled", "security",
                       "critical", now, [firewall_enabled |-> stats.FirewallEnabled])
              ELSE resolveAlert(a, "security_firewall_disabled", now)
    IN  IF stats.FailedLogins > 10
        THEN createOrUpdateAlert(fw, "security_failed_logins", "security", "medium", now,
                 [failed_logins |-> stats.FailedLogins])
        ELSE resolveAlert(fw, "security_failed_logins", now)

evaluateConnectionAlerts(a, stats, cfg, now) ==
    IF stats.ActiveClients > cfg.ConnectionThreshold
    THEN createOrUpdateAlert(a, "connection_high_count", "connection", "medium", now,
             [active_clients |-> stats.ActiveClients, threshold |-> cfg.ConnectionThreshold])
    ELSE resolveAlert(a, "connection_high_count", now)

evaluatePerformanceAlerts(a, stats, cfg, now) ==
    LET rt == IF stats.ResponseTime > cfg.ResponseTimeThreshold
              THEN createOrUpdateAlert(a, "performance_response_time", "performance",
                       "medium", now,
                       [response_time |-> stats.ResponseTime,
                        threshold |-> cfg.ResponseTimeThreshold])
              ELSE resolveAlert(a, "performance_response_time", now)
    IN  IF stats.ErrorRate > cfg.ErrorRateThreshold
        THEN createOrUpdateAlert(rt, "performance_error_rate", "performance", "high", now,
                 [error_rate |-> stats.ErrorRate, threshold |-> cfg.ErrorRateThreshold])
        ELSE resolveAlert(rt, "performance_error_rate", now)

\* Whether the rule that owns alert id finds its condition in the metrics.
RuleFires(id, metrics, cfg) ==
    IF id = "system_cpu_high" THEN metrics.CPUUsage > cfg.CPUThreshold
    ELSE IF id = "system_memory_high" THEN metrics.MemoryUsage > cfg.MemoryThreshold
    ELSE IF id = "system_disk_high" THEN metrics.DiskUsage > cfg.DiskThreshold
    ELSE IF id = "network_ip_pool_high" THEN metrics.IPPoolUtilization > 90
    ELSE IF id = "security_firewall_disabled" THEN ~metrics.FirewallEnabled
    ELSE IF id = "security_failed_logins" THEN metrics.FailedLogins > 10
    ELSE IF id = "connection_high_count" THEN metrics.ActiveClients > cfg.ConnectionThreshold
    ELSE IF id = "performance_response_time"
         THEN metrics.ResponseTime > cfg.ResponseTimeThreshold
    ELSE IF id = "performance_error_rate" THEN metrics.ErrorRate > cfg.ErrorRateThreshold
    ELSE FALSE

cleanupResolvedAlerts_AtLeast(a, now) ==
    LET old == {id \in DOMAIN a : /\ a[id].Status = "resolved"
                                  /\ a[id].ResolvedAt # NoTime
                                  /\ now - a[id].ResolvedAt >= Hours24}
    IN  [id \in DOMAIN a \ old |-> a[id]]

cleanupResolvedAlerts(a, now) ==
    LET old == {id \in DOMAIN a : /\ a[id].Status = "resolved"
                                  /\ a[id].ResolvedAt # NoTime
                                  /\ now - a[id].ResolvedAt > Hours24}
    IN  [id \in DOMAIN a \ old |-> a[id]]

EvaluatedAlerts(a, metrics, cfg, now) ==
    cleanupResolvedAlerts(
        evaluatePerformanceAlerts(
            evaluateConnectionAlerts(
                evaluateSecurityAlerts(
                    evaluateNetworkAlerts(
                        evaluateSystemAlerts(a, metrics, cfg, now),
                        metrics, now),
                    metrics, now),
                metrics, cfg, now),
            metrics, cfg, now),
        now)

ActiveAlerts_NotResolved(a) == {a[id] : id \in {i \in DOMAIN a : a[i].Status # "resolved"}}

ActiveAlerts(a) == {a[id] : id \in {i \in DOMAIN a : a[i].Status = "active"}}
GetActiveAlerts == ActiveAlerts(alerts)

AllAlerts(a, since) == {a[id] : id \in {i \in DOMAIN a : a[i].CreatedAt > since}}
GetAllAlerts(since) == AllAlerts(alerts, since)

AlertInit ==
    /\ alerts = NoAlerts
    /\ alertConfig = DefaultAlertConfig
    /\ lastEvalTime = 0
    /\ clock = 0
    /\ ticks = 0
    /\ amLast = [op |-> "none", arg |-> NoTime, now |-> 0, err |-> "ok",
                 before |-> NoAlerts]
    /\ amOps = 0
    /\ suppressedFrom = NoAlerts

AlertDone(op, arg, err) ==
    /\ amLast' = [op |-> op, arg |-> arg, now |-> clock, err |-> err,
                  before |-> alerts]
    /\ amOps' = amOps + 1
    /\ suppressedFrom' =
          [id \in {i \in DOMAIN alerts' : alerts'[i].Status = "suppressed"} |->
              IF id \in DOMAIN suppressedFrom THEN suppressedFrom[id]
              ELSE alerts[id].Status]
    /\ UNCHANGED <<clock, ticks>>

Tick(d) ==
    /\ ticks < MaxTicks
    /\ clock' = clock + d
    /\ ticks' = ticks + 1
    /\ UNCHANGED <<alerts, alertConfig, lastEvalTime, amLast, amOps, suppressedFrom>>

EvaluateMetrics(metrics) ==
    /\ amOps < MaxAlertOps
    /\ IF ~alertConfig.EnableAlerts
       THEN UNCHANGED <<alerts, lastEvalTime>>
       ELSE /\ lastEvalTime' = clock
            /\ alerts' = EvaluatedAlerts(alerts, metrics, alertConfig, clock)
    /\ AlertDone("EvaluateMetrics", metrics, "ok")
    /\ UNCHANGED alertConfig

ResolveAlertErr_NoResolvedCheck(alertID, a) ==
    IF alertID \notin DOMAIN a THEN "alert not found"
    ELSE "ok"

ResolveAlertErr(alertID, a) ==
    IF alertID \notin DOMAIN a THEN "alert not found"
    ELSE IF a[alertID].Status = "resolved" THEN "alert already resolved"
    ELSE "ok"

ResolveAlert(alertID) ==
    /\ amOps < MaxAlertOps
    /\ LET err == ResolveAlertErr(alertID, alerts)
       IN  /\ alerts' = IF err = "ok"
                        THEN [alerts EXCEPT ![alertID].Status = "resolved",
                                            ![alertID].ResolvedAt = clock,
                                            ![alertID].UpdatedAt = clock]
                        ELSE alerts
           /\ AlertDone("ResolveAlert", alertID, err)
    /\ UNCHANGED <<alertConfig, lastEvalTime>>

SuppressAlert(alertID, duration) ==
    /\ amOps < MaxAlertOps
    /\ IF alertID \notin DOMAIN alerts
       THEN /\ UNCHANGED alerts
            /\ AlertDone("SuppressAlert", alertID, "alert not found")
       ELSE /\ alerts' = [alerts EXCEPT
                              ![alertID].Status = "suppressed",
                              ![alertID].UpdatedAt = clock,
                              ![alertID].Metadata =
                                  [suppressed_until |-> clock + duration] @@ @]
            /\ AlertDone("SuppressAlert", alertID, "ok")
    /\ UNCHANGED <<alertConfig, lastEvalTime>>

UpdateConfig(cfg) ==
    /\ amOps < MaxAlertOps
    /\ alertConfig' = cfg
    /\ UNCHANGED <<alerts, lastEvalTime>>
    /\ AlertDone("UpdateConfig", cfg.EnableAlerts, "ok")

AlertNext ==
    /\ \/ \E d \in ClockSteps : Tick(d)
       \/ \E metrics \in MetricsInputs : EvaluateMetrics(metrics)
       \/ \E alertID \in AlertIDs : ResolveAlert(alertID)
       \/ \E alertID \in AlertIDs, duration \in SuppressDurations :
              SuppressAlert(alertID, duration)
       \/ \E cfg \in AlertConfigs : UpdateConfig(cfg)
    /\ UNCHANGED <<poolVars, wgVars, apiVars, monVars, extVars>>


\* ---------------------------------------------------------------------
\* The monitor (package monitoring): Start, Stop, GetMetrics and the
\* monitorLoop goroutines.  Start, Stop, GetMetrics and collectMetrics
\* hold Monitor.mutex from entry to return, so each is one step.  A
\* goroutine at its select with a ready case, or at the end of a cycle,
\* steps before the clock moves on.

MaxMonitorOps == 4
MaxTasks == 2
MaxTime == 4
UpdateInterval == 2

Contexts == {1, 2}
MonitorCallers == {1, 2}
\* How long a cycle (collectMetrics, processAlerts, cleanupOldData) takes.
CycleTimes == {1, UpdateInterval}

ZeroStats ==
    [CPUUsage |-> 0, MemoryUsage |-> 0, DiskUsage |-> 0, IPPoolUtilization |-> 0,
     FirewallEnabled |-> FALSE, FailedLogins |-> 0, ActiveClients |-> 0,
     ResponseTime |-> 0, ErrorRate |-> 0]

\* What one collectMetrics reads: the pool utilisation from the pool, the
\* firewall state from pfctl, the rest as the collectors fill it in.
MonitorSamples ==
    {[ZeroStats EXCEPT !.FirewallEnabled = f,
                       !.IPPoolUtilization = (Cardinality(allocated) * 100) \div totalHosts] :
        f \in BOOLEAN}

calculateServerStatus(stats) ==
    IF ~stats.FirewallEnabled THEN "degraded"
    ELSE IF stats.MemoryUsage > 90 THEN "degraded"
    ELSE "healthy"

NoMetrics == [Timestamp |-> NoTime, ServerStatus |-> "none", Stats |-> ZeroStats, Alerts |-> 0]

NewTask(ctx) ==
    [ctx |-> ctx, pc |-> "select", tickReady |-> FALSE,
     nextTick |-> clock + UpdateInterval, busyUntil |-> NoTime, longest |-> 0,
     signalAt |-> IF stopCh = "closed" \/ ctx \in cancelled THEN clock ELSE NoTime,
     exitAt |-> NoTime]

Alive(t) == tasks[t].pc # "exited"
AliveTasks == {t \in 1..Len(tasks) : Alive(t)}

\* The goroutines a signal given now reaches for the first time.
Signalled(ts, hit) ==
    [t \in 1..Len(ts) |->
        IF ts[t].pc # "exited" /\ ts[t].signalAt = NoTime /\ hit[t]
        THEN [ts[t] EXCEPT !.signalAt = clock]
        ELSE ts[t]]

MonitorInit ==
    /\ running = FALSE
    /\ stopCh = "open"
    /\ cancelled = {}
    /\ tasks = <<>>
    /\ monMetrics = [Timestamp |-> 0, ServerStatus |-> "healthy",
                     Stats |-> ZeroStats, Alerts |-> 0]
    /\ arrays = NoAlerts
    /\ returned = [c \in MonitorCallers |-> NoMetrics]
    /\ closes = 0
    /\ panicked = FALSE
    /\ stopped = 0
    /\ monLast = [op |-> "none", arg |-> 0, err |-> "ok"]
    /\ monOps = 0

MonitorDone(op, arg, err) ==
    /\ monLast' = [op |-> op, arg |-> arg, err |-> err]
    /\ monOps' = monOps + 1

Start(ctx) ==
    /\ monOps < MaxMonitorOps
    /\ IF running
       THEN /\ MonitorDone("Start", ctx, "monitor is already running")
            /\ UNCHANGED <<running, tasks>>
       ELSE /\ Len(tasks) < MaxTasks
            /\ running' = TRUE
            /\ tasks' = Append(tasks, NewTask(ctx))
            /\ MonitorDone("Start", ctx, "ok")
    /\ UNCHANGED <<stopCh, cancelled, monMetrics, arrays, returned, closes,
                   panicked, stopped, alertVars>>

\* Whether Stop's select finds stopCh not yet closed and closes it.
StopCloses_Always(ch) == TRUE

StopCloses(ch) == ch # "closed"

Stop ==
    /\ monOps < MaxMonitorOps
    /\ IF ~running
       THEN /\ MonitorDone("Stop", 0, "monitor is not running")
            /\ UNCHANGED <<running, stopCh, tasks, closes, panicked, stopped>>
       ELSE /\ IF StopCloses(stopCh)
               THEN /\ closes' = closes + 1
                    /\ panicked' = (panicked \/ stopCh = "closed")
                    /\ stopCh' = "closed"
                    /\ tasks' = Signalled(tasks, [t \in 1..Len(tasks) |-> TRUE])
               ELSE UNCHANGED <<closes, panicked, stopCh, tasks>>
            /\ running' = FALSE
            /\ stopped' = Len(tasks)
            /\ MonitorDone("Stop", 0, "ok")
    /\ UNCHANGED <<cancelled, monMetrics, arrays, returned, alertVars>>

\* The caller of Start cancels the context it passed.
CancelContext(ctx) ==
    /\ monOps < MaxMonitorOps
    /\ ctx \notin cancelled
    /\ \E t \in 1..Len(tasks) : tasks[t].ctx = ctx
    /\ cancelled' = cancelled \cup {ctx}
    /\ tasks' = Signalled(tasks, [t \in 1..Len(tasks) |-> tasks[t].ctx = ctx])
    /\ MonitorDone("CancelContext", ctx, "ok")
    /\ UNCHANGED <<running, stopCh, monMetrics, arrays, returned, closes,
                   panicked, stopped, alertVars>>

\* The arrays still referenced once the monitor holds m and the callers r.
Referenced(m, r, arrs) ==
    [g \in (DOMAIN arrs) \cap ({m.Alerts} \cup {r[c].Alerts : c \in MonitorCallers}) |->
        arrs[g]]

GetMetrics(c) ==
    /\ monOps < MaxMonitorOps
    /\ returned' = [returned EXCEPT ![c] = monMetrics]
    /\ arrays' = Referenced(monMetrics, returned', arrays)
    /\ MonitorDone("GetMetrics", c, "ok")
    /\ UNCHANGED <<running, stopCh, cancelled, tasks, monMetrics, closes,
                   panicked, stopped, alertVars>>

\* A caller changes the value GetMetrics returned to it: a field of the
\* struct, a field of an element of its Alerts, an entry of an element's
\* Metadata.
CallerSetStatus(c) ==
    /\ monOps < MaxMonitorOps
    /\ returned[c] # NoMetrics
    /\ returned' = [returned EXCEPT ![c].ServerStatus = "changed"]
    /\ MonitorDone("CallerSetStatus", c, "ok")
    /\ UNCHANGED <<running, stopCh, cancelled, tasks, monMetrics, arrays, closes,
                   panicked, stopped, alertVars>>

CallerSetAlert(c, i) ==
    /\ monOps < MaxMonitorOps
    /\ returned[c] # NoMetrics
    /\ returned[c].Alerts # 0
    /\ i \in 1..Len(arrays[returned[c].Alerts])
    /\ arrays' = [arrays EXCEPT ![returned[c].Alerts][i].Severity = "changed"]
    /\ MonitorDone("CallerSetAlert", c, "ok")
    /\ UNCHANGED <<running, stopCh, cancelled, tasks, monMetrics, returned, closes,
                   panicked, stopped, alertVars>>

CallerSetMetadata(c, i) ==
    /\ monOps < MaxMonitorOps
    /\ returned[c] # NoMetrics
    /\ returned[c].Alerts # 0
    /\ i \in 1..Len(arrays[returned[c].Alerts])
    /\ arrays[returned[c].Alerts][i].Metadata \in DOMAIN alerts
    /\ alerts' = [alerts EXCEPT ![arrays[returned[c].Alerts][i].Metadata].Metadata =
                                   [note |-> "changed"] @@ @]
    /\ MonitorDone("CallerSetMetadata", c, "ok")
    /\ UNCHANGED <<running, stopCh, cancelled, tasks, monMetrics, arrays, returned,
                   closes, panicked, stopped, alertConfig, lastEvalTime, clock,
                   ticks, amLast, amOps, suppressedFrom>>

\* What a holder of the ServerMetrics m reads through it.
MetricsView(m, arrs, al) ==
    [m EXCEPT !.Alerts =
        IF m.Alerts = 0 THEN <<>>
        ELSE [i \in 1..Len(arrs[m.Alerts]) |->
                 [arrs[m.Alerts][i] EXCEPT !.Metadata =
                     IF @ \in DOMAIN al THEN al[@].Metadata ELSE NoAlerts]]]

\* The orders in which ranging over the alert map can meet the ids in S.
Orders(S) ==
    {f \in [1..Cardinality(S) -> S] : \A i, j \in 1..Cardinality(S) : f[i] = f[j] => i = j}

\* An element of the slice GetActiveAlerts returns: a copy of the Alert
\* whose Metadata is the map of the alert it was copied from.
AlertCopy(a, id) == [a[id] EXCEPT !.Metadata = id]

\* Whether one of the two exit cases of monitorLoop's select is ready.
ExitReady_StopOnly(t) == stopCh = "closed"

ExitReady(t) == tasks[t].ctx \in cancelled \/ stopCh = "closed"

TaskExit(t) ==
    /\ tasks[t].pc = "select"
    /\ ExitReady(t)
    /\ tasks' = [tasks EXCEPT ![t].pc = "exited", ![t].exitAt = clock,
                              ![t].tickReady = FALSE, ![t].nextTick = NoTime]
    /\ UNCHANGED <<running, stopCh, cancelled, monMetrics, arrays, returned, closes,
                   panicked, stopped, monLast, monOps, alertVars>>

TaskTick(t, d) ==
    /\ tasks[t].pc = "select"
    /\ tasks[t].tickReady
    /\ tasks' = [tasks EXCEPT ![t].pc = "collect", ![t].tickReady = FALSE,
                              ![t].busyUntil = clock + d,
                              ![t].longest = IF d > @ THEN d ELSE @]
    /\ UNCHANGED <<running, stopCh, cancelled, monMetrics, arrays, returned, closes,
                   panicked, stopped, monLast, monOps, alertVars>>

TaskCollectMetrics(t, sample) ==
    /\ tasks[t].pc = "collect"
    /\ \E order \in Orders({id \in DOMAIN alerts : alerts[id].Status = "active"}) :
          LET used == {monMetrics.Alerts} \cup {returned[c].Alerts : c \in MonitorCallers}
              g == IF order = <<>> THEN 0
                   ELSE CHOOSE n \in 1..(Cardinality(MonitorCallers) + 2) : n \notin used
              m == [Timestamp |-> clock, ServerStatus |-> calculateServerStatus(sample),
                    Stats |-> sample, Alerts |-> g]
              arrs == IF g = 0 THEN arrays
                      ELSE (g :> [i \in 1..Len(order) |-> AlertCopy(alerts, order[i])]) @@ arrays
          IN  /\ monMetrics' = m
              /\ arrays' = Referenced(m, returned, arrs)
    /\ tasks' = [tasks EXCEPT ![t].pc = "alerts"]
    /\ UNCHANGED <<running, stopCh, cancelled, returned, closes, panicked, stopped,
                   monLast, monOps, alertVars>>

TaskProcessAlerts(t) ==
    /\ tasks[t].pc = "alerts"
    /\ tasks[t].busyUntil = clock
    /\ IF ~alertConfig.EnableAlerts
       THEN UNCHANGED <<alerts, lastEvalTime>>
       ELSE /\ lastEvalTime' = clock
            /\ alerts' = EvaluatedAlerts(alerts, monMetrics.Stats, alertConfig, clock)
    /\ tasks' = [tasks EXCEPT ![t].pc = "select", ![t].busyUntil = NoTime]
    /\ UNCHANGED <<running, stopCh, cancelled, monMetrics, arrays, returned, closes,
                   panicked, stopped, monLast, monOps, alertConfig, clock, ticks,
                   amLast, amOps, suppressedFrom>>

Urgent(t) ==
    \/ /\ tasks[t].pc = "select"
       /\ tasks[t].tickReady \/ ExitReady(t)
    \/ /\ tasks[t].pc \in {"collect", "alerts"}
       /\ tasks[t].busyUntil = clock

\* An hour passes; the tickers that are due put a tick in their channel.
Advance ==
    /\ clock < MaxTime
    /\ \A t \in 1..Len(tasks) : ~Urgent(t)
    /\ clock' = clock + 1
    /\ tasks' = [t \in 1..Len(tasks) |->
                    IF Alive(t) /\ tasks[t].nextTick = clock + 1
                    THEN [tasks[t] EXCEPT !.tickReady = TRUE,
                                          !.nextTick = @ + UpdateInterval]
                    ELSE tasks[t]]
    /\ UNCHANGED <<running, stopCh, cancelled, monMetrics, arrays, returned, closes,
                   panicked, stopped, monLast, monOps, alerts, alertConfig,
                   lastEvalTime, ticks, amLast, amOps, suppressedFrom>>

MonitorNext ==
    /\ \/ \E ctx \in Contexts : Start(ctx)
       \/ Stop
       \/ \E ctx \in Contexts : CancelContext(ctx)
       \/ \E c \in MonitorCallers : GetMetrics(c)
       \/ \E c \in MonitorCallers : CallerSetStatus(c)
       \/ \E c \in MonitorCallers, i \in 1..2 : CallerSetAlert(c, i)
       \/ \E c \in MonitorCallers, i \in 1..2 : CallerSetMetadata(c, i)
       \/ \E t \in 1..Len(tasks) : TaskExit(t)
       \/ \E t \in 1..Len(tasks), d \in CycleTimes : TaskTick(t, d)
       \/ \E t \in 1..Len(tasks), sample \in MonitorSamples : TaskCollectMetrics(t, sample)
       \/ \E t \in 1..Len(tasks) : TaskProcessAlerts(t)
       \/ Advance
    /\ UNCHANGED <<poolVars, wgVars, apiVars, extVars>>

(***************************************************************************)
(* LogManager: the in-memory buffer of recent log entries.  An entry is    *)
(* its level and its message; the message of the n-th Log call is n.       *)
(***************************************************************************)
\* The largest BufferSize a configuration carries, and the number of
\* LogManager calls after construction.
MaxBufferSize == 2
MaxLogOps == 5

LogLevelDebug == 1
LogLevelInfo == 2
LogLevelError == 4
LogLevels == {LogLevelDebug, LogLevelInfo, LogLevelError}

\* The configurations given to NewLogManagerWithConfig and UpdateConfig.
LogConfigs ==
    [LogLevel : {LogLevelInfo, LogLevelError}, BufferSize : 0..MaxBufferSize]

\* The counts GetRecentLogs is called with.
RecentCounts == {0, 1, MaxBufferSize + 1}

\* copy(dst, src): the first min(len(dst), len(src)) elements of dst are
\* overwritten with those of src.
CopySlice(dst, src) ==
    [i \in 1..Len(dst) |-> IF i <= Len(src) THEN src[i] ELSE dst[i]]

\* LogManager.addToBuffer: append, then, when the buffer is longer than
\* size, move its last size entries to the front and cut it to size.
addToBuffer(buf, size, entry) ==
    LET appended == Append(buf, entry)
        n == Len(appended)
    IN  IF n > size
        THEN SubSeq(CopySlice(appended, SubSeq(appended, n - size + 1, n)), 1, size)
        ELSE appended

\* LogManager.GetRecentLogs(count) of the buffer buf.
GetRecentLogsOf(buf, count) ==
    LET c == IF count <= 0 \/ count > Len(buf) THEN Len(buf) ELSE count
    IN  SubSeq(buf, Len(buf) - c + 1, Len(buf))

LogInit ==
    /\ lmBuilt = FALSE
    /\ logConfig = [LogLevel |-> LogLevelInfo, BufferSize |-> 0]
    /\ logBuffer = <<>>
    /\ bufferSize = 0
    /\ logged = <<>>
    /\ resized = FALSE
    /\ recent = <<>>
    /\ lmLast = [op |-> "none", arg |-> 0]
    /\ lmOps = 0

\* NewLogManagerWithConfig(config)
NewLogManagerWithConfig(config) ==
    /\ ~lmBuilt
    /\ lmBuilt' = TRUE
    /\ logConfig' = config
    /\ logBuffer' = <<>>
    /\ bufferSize' = config.BufferSize
    /\ lmLast' = [op |-> "NewLogManagerWithConfig", arg |-> config.BufferSize]
    /\ UNCHANGED <<logged, resized, recent, lmOps>>

\* LogManager.Log(level, message, nil): a level below config.LogLevel is
\* dropped, any other entry goes to addToBuffer.
Log(level) ==
    /\ lmBuilt
    /\ lmOps < MaxLogOps
    /\ LET entry == [Level |-> level, Message |-> lmOps + 1]
       IN  IF level < logConfig.LogLevel
           THEN UNCHANGED <<logBuffer, logged>>
           ELSE /\ logBuffer' = addToBuffer(logBuffer, bufferSize, entry)
                /\ logged' = Append(logged, entry)
    /\ lmLast' = [op |-> "Log", arg |-> level]
    /\ lmOps' = lmOps + 1
    /\ UNCHANGED <<lmBuilt, logConfig, bufferSize, resized, recent>>

\* LogManager.GetRecentLogs(count)
GetRecentLogs(count) ==
    /\ lmBuilt
    /\ lmOps < MaxLogOps
    /\ recent' = GetRecentLogsOf(logBuffer, count)
    /\ lmLast' = [op |-> "GetRecentLogs", arg |-> count]
    /\ lmOps' = lmOps + 1
    /\ UNCHANGED <<lmBuilt, logConfig, logBuffer, bufferSize, logged, resized>>

\* LogManager.UpdateConfig(config): the configuration and bufferSize are
\* replaced; the buffer is left as it is.
LogUpdateConfig(config) ==
    /\ lmBuilt
    /\ lmOps < MaxLogOps
    /\ logConfig' = config
    /\ bufferSize' = config.BufferSize
    /\ resized' = (resized \/ config.BufferSize # bufferSize)
    /\ lmLast' = [op |-> "UpdateConfig", arg |-> config.BufferSize]
    /\ lmOps' = lmOps + 1
    /\ UNCHANGED <<lmBuilt, logBuffer, logged, recent>>

LogNext ==
    /\ \/ \E config \in LogConfigs : NewLogManagerWithConfig(config)
       \/ \E level \in LogLevels : Log(level)
       \/ \E count \in RecentCounts : GetRecentLogs(count)
       \/ \E config \in LogConfigs : LogUpdateConfig(config)
    /\ UNCHANGED <<poolVars, wgVars, apiVars, alertVars, monVars, authVars, regVars>>

(***************************************************************************)
(* AuthManager and AuthMiddleware.  Time is counted in half seconds;       *)
(* jwt.NewNumericDate truncates a time to jwt.TimePrecision, one second.   *)
(* A signed token is its encoded payload and its HS256 signature, the      *)
(* signature being the pair of the payload signed and the secret used.     *)
(***************************************************************************)
\* The last instant of the clock, the number of GenerateToken calls and the
\* number of AuthManager and middleware calls.
MaxAuthTime == 4
MaxTokens == 1
MaxAuthOps == 2

TimePrecision == 2

\* The managers: jwtSecret and tokenExpiry, the expiry in half seconds.
Managers ==
    {[jwtSecret |-> 1, tokenExpiry |-> 1], [jwtSecret |-> 1, tokenExpiry |-> 3],
     [jwtSecret |-> 2, tokenExpiry |-> 3]}

\* The users tokens are generated for: a user id and a username, the
\* username a string of characters of which "<" is escaped by encoding/json.
AuthUsers == {[UserID |-> 1, Username |-> <<"a">>],
              [UserID |-> 2, Username |-> <<"a", "<">>]}

\* time.Time.Truncate(jwt.TimePrecision)
NewNumericDate(t) == t - (t % TimePrecision)

\* encoding/json of a string, and back.
MarshalString(s) == [i \in 1..Len(s) |-> IF s[i] = "<" THEN "\\u003c" ELSE s[i]]
UnmarshalString_Raw(s) == s
UnmarshalString(s) == [i \in 1..Len(s) |-> IF s[i] = "\\u003c" THEN "<" ELSE s[i]]

\* NumericDate.MarshalJSON writes whole seconds; UnmarshalJSON reads them.
MarshalNumericDate(t) == t \div TimePrecision
UnmarshalNumericDate(n) == n * TimePrecision

\* The Claims GenerateToken builds at time now.
NewClaims(am, userID, username, now) ==
    [UserID |-> userID, Username |-> username,
     ExpiresAt |-> NewNumericDate(now + am.tokenExpiry),
     IssuedAt |-> NewNumericDate(now),
     NotBefore |-> NewNumericDate(now),
     Issuer |-> "vpn-server",
     Subject |-> <<"user-", userID>>]

MarshalClaims(c) ==
    [user_id |-> c.UserID, username |-> MarshalString(c.Username),
     exp |-> MarshalNumericDate(c.ExpiresAt), iat |-> MarshalNumericDate(c.IssuedAt),
     nbf |-> MarshalNumericDate(c.NotBefore), iss |-> c.Issuer, sub |-> c.Subject]

UnmarshalClaims(p) ==
    [UserID |-> p.user_id, Username |-> UnmarshalString(p.username),
     ExpiresAt |-> UnmarshalNumericDate(p.exp), IssuedAt |-> UnmarshalNumericDate(p.iat),
     NotBefore |-> UnmarshalNumericDate(p.nbf), Issuer |-> p.iss, Subject |-> p.sub]

\* jwt.SigningMethodHS256 over a payload with a secret.
HS256(payload, secret) == [of |-> payload, key |-> secret]

\* AuthManager.GenerateToken at time now.
GenerateTokenAt(am, userID, username, now) ==
    LET payload == MarshalClaims(NewClaims(am, userID, username, now))
    IN  [form |-> "jwt", payload |-> payload, sig |-> HS256(payload, am.jwtSecret)]

\* The strings that are no token: "invalid.jwt.token" and "".
MalformedToken == [form |-> "malformed", payload |-> 0, sig |-> 0]
EmptyToken == [form |-> "empty", payload |-> 0, sig |-> 0]

\* A token whose payload was edited to another user id, signature untouched.
Tampered(token) ==
    [token EXCEPT !.payload = [@ EXCEPT !.user_id = @ + 1]]

NoClaims == [UserID |-> 0, Username |-> <<>>]

\* The validator of jwt.ParseWithClaims: exp must lie after now.
verifyExpiresAt_Never(c, now) == TRUE
verifyExpiresAt(c, now) == now < c.ExpiresAt

\* AuthManager.ValidateToken at time now: the claims and the error.
ValidateTokenAt(am, token, now) ==
    IF token.form # "jwt"
    THEN [err |-> "failed to parse token: token is malformed", claims |-> NoClaims]
    ELSE IF token.sig # HS256(token.payload, am.jwtSecret)
    THEN [err |-> "failed to parse token: signature is invalid", claims |-> NoClaims]
    ELSE LET c == UnmarshalClaims(token.payload)
         IN  IF ~verifyExpiresAt(c, now)
             THEN [err |-> "failed to parse token: token is expired", claims |-> NoClaims]
             ELSE IF now < c.NotBefore
             THEN [err |-> "failed to parse token: token is not valid yet",
                   claims |-> NoClaims]
             ELSE [err |-> "ok", claims |-> c]

\* AuthManager.RefreshToken at time now: the new token and the error.
RefreshTokenAt(am, token, now) ==
    LET v == ValidateTokenAt(am, token, now)
    IN  IF v.err # "ok"
        THEN [err |-> "cannot refresh invalid token", token |-> EmptyToken]
        ELSE [err |-> "ok",
              token |-> GenerateTokenAt(am, v.claims.UserID, v.claims.Username, now)]

\* An Authorization header: what precedes the token, and the token.  The
\* absent header is the empty string.
Header(prefix, token) == [prefix |-> prefix, token |-> token]
NoHeader == Header("", EmptyToken)

Rejected(error) ==
    [status |-> "StatusUnauthorized", error |-> error, next |-> FALSE,
     user_id |-> 0, username |-> <<>>]

\* AuthMiddleware.RequireAuth on a request carrying authHeader.
RequireAuthAt_NoEmptyCheck(am, authHeader, now) ==
    IF authHeader = NoHeader THEN Rejected("Authorization header is required")
    ELSE IF authHeader.prefix # "Bearer "
    THEN Rejected("Authorization header must start with 'Bearer '")
    ELSE LET v == ValidateTokenAt(am, authHeader.token, now)
         IN  IF v.err # "ok" THEN Rejected("Invalid or expired token")
             ELSE [status |-> "StatusOK", error |-> "", next |-> TRUE,
                   user_id |-> v.claims.UserID, username |-> v.claims.Username]

RequireAuthAt(am, authHeader, now) ==
    IF authHeader = NoHeader THEN Rejected("Authorization header is required")
    ELSE IF authHeader.prefix # "Bearer "
    THEN Rejected("Authorization header must start with 'Bearer '")
    ELSE IF authHeader.token = EmptyToken THEN Rejected("JWT token is required")
    ELSE LET v == ValidateTokenAt(am, authHeader.token, now)
         IN  IF v.err # "ok" THEN Rejected("Invalid or expired token")
             ELSE [status |-> "StatusOK", error |-> "", next |-> TRUE,
                   user_id |-> v.claims.UserID, username |-> v.claims.Username]

\* The token strings presented: those generated, one of them tampered
\* with, and a string that is no token.
PresentedTokens ==
    {i.token : i \in issued} \cup {Tampered(i.token) : i \in issued}
        \cup {MalformedToken}

\* The Authorization headers of the requests.
AuthHeaders ==
    {NoHeader, Header("Bearer ", EmptyToken), Header("Bearer", EmptyToken),
     Header("Basic ", MalformedToken), Header("bearer ", MalformedToken)}
        \cup {Header("Bearer ", token) : token \in PresentedTokens}
        \cup {Header("bearer ", i.token) : i \in issued}

AuthInit ==
    /\ authClock = 0
    /\ issued = {}
    /\ generated = 0
    /\ authLast = [op |-> "none", am |-> 0, arg |-> 0, now |-> 0, result |-> 0]
    /\ authOps = 0

AuthDone(op, am, arg, result) ==
    /\ authLast' = [op |-> op, am |-> am, arg |-> arg, now |-> authClock,
                    result |-> result]
    /\ authOps' = authOps + 1
    /\ UNCHANGED authClock

\* Half a second passes.
AuthTick ==
    /\ authClock < MaxAuthTime
    /\ authClock' = authClock + 1
    /\ UNCHANGED <<issued, generated, authLast, authOps>>

Issue(am, token, userID, username) ==
    [token |-> token, secret |-> am.jwtSecret, UserID |-> userID,
     Username |-> username, at |-> authClock, life |-> am.tokenExpiry]

GenerateToken(am, u) ==
    /\ authOps < MaxAuthOps
    /\ generated < MaxTokens
    /\ generated' = generated + 1
    /\ LET token == GenerateTokenAt(am, u.UserID, u.Username, authClock)
       IN  /\ issued' = issued \cup {Issue(am, token, u.UserID, u.Username)}
           /\ AuthDone("GenerateToken", am, u, [err |-> "ok", token |-> token])

ValidateToken(am, token) ==
    /\ authOps < MaxAuthOps
    /\ AuthDone("ValidateToken", am, token, ValidateTokenAt(am, token, authClock))
    /\ UNCHANGED <<issued, generated>>

RefreshToken(am, token) ==
    /\ authOps < MaxAuthOps
    /\ LET r == RefreshTokenAt(am, token, authClock)
           c == ValidateTokenAt(am, token, authClock).claims
       IN  /\ issued' = IF r.err = "ok"
                        THEN issued \cup {Issue(am, r.token, c.UserID, c.Username)}
                        ELSE issued
           /\ AuthDone("RefreshToken", am, token, r)
    /\ UNCHANGED generated

RequireAuth(am, authHeader) ==
    /\ authOps < MaxAuthOps
    /\ AuthDone("RequireAuth", am, authHeader, RequireAuthAt(am, authHeader, authClock))
    /\ UNCHANGED <<issued, generated>>

AuthNext ==
    /\ \/ AuthTick
       \/ \E am \in Managers, u \in AuthUsers : GenerateToken(am, u)
       \/ \E am \in Managers, token \in PresentedTokens : ValidateToken(am, token)
       \/ \E am \in Managers, token \in PresentedTokens : RefreshToken(am, token)
       \/ \E am \in Managers, authHeader \in AuthHeaders : RequireAuth(am, authHeader)
    /\ UNCHANGED <<poolVars, wgVars, apiVars, alertVars, monVars, logVars, regVars>>

(***************************************************************************)
(* AuthAPI.Register against the users table, served by two concurrent      *)
(* handlers, next to the web form's handleRegister.  The table has unique  *)
(* indexes on username and on email.                                       *)
(***************************************************************************)
\* The number of registration requests.
MaxRegisters == 4

RegUsernames == {"u1", "u2"}
RegEmails == {"u1@x", "u2@x"}

NoRegister == [username |-> "", email |-> ""]

\* Database.CreateUser: the insert fails on a database error and on the
\* unique indexes of username and email.
UserInsertOk_NoUniqueIndex(dbOk, username, email, table) == dbOk

UserInsertOk(dbOk, username, email, table) ==
    dbOk /\ ~\E u \in table : u.Username = username \/ u.Email = email

RegisterInit ==
    /\ users = {}
    /\ nextUserID = 1
    /\ regPc = [p \in Procs |-> "idle"]
    /\ regReq = [p \in Procs |-> NoRegister]
    /\ registers = 0
    /\ regLast = [proc |-> 0, step |-> "none", username |-> "", email |-> "",
                  status |-> "none", error |-> ""]
    /\ created = [n \in RegUsernames |-> 0]

\* A handler step that answers: the response, and the slot is free again.
RegisterRespond(p, step, r, status, error) ==
    /\ regLast' = [proc |-> p, step |-> step, username |-> r.username,
                   email |-> r.email, status |-> status, error |-> error]
    /\ regReq' = [regReq EXCEPT ![p] = NoRegister]
    /\ regPc' = [regPc EXCEPT ![p] = "idle"]

\* A handler step that goes on to the step next.
RegisterStep(p, step, r, next) ==
    /\ regLast' = [proc |-> p, step |-> step, username |-> r.username,
                   email |-> r.email, status |-> "none", error |-> ""]
    /\ regReq' = [regReq EXCEPT ![p] = r]
    /\ regPc' = [regPc EXCEPT ![p] = next]

\* Register up to the username check: ShouldBindJSON, GetUserByUsername.
RegisterCheckUsername(p, username, email, bindOk, dbOk) ==
    /\ regPc[p] = "idle"
    /\ registers < MaxRegisters
    /\ registers' = registers + 1
    /\ LET step == "RegisterCheckUsername"
           r == [username |-> username, email |-> email]
       IN  IF ~bindOk
           THEN RegisterRespond(p, step, r, "StatusBadRequest", "binding")
           ELSE IF ~dbOk
           THEN RegisterRespond(p, step, r, "StatusInternalServerError",
                                "Failed to check username")
           ELSE IF \E u \in users : u.Username = username
           THEN RegisterRespond(p, step, r, "StatusConflict", "Username already exists")
           ELSE RegisterStep(p, step, r, "checkEmail")
    /\ UNCHANGED <<users, nextUserID, created>>

\* Register: GetUserByEmail.
RegisterCheckEmail(p, dbOk) ==
    /\ regPc[p] = "checkEmail"
    /\ LET step == "RegisterCheckEmail"
           r == regReq[p]
       IN  IF ~dbOk
           THEN RegisterRespond(p, step, r, "StatusInternalServerError",
                                "Failed to check email")
           ELSE IF \E u \in users : u.Email = r.email
           THEN RegisterRespond(p, step, r, "StatusConflict", "Email already exists")
           ELSE RegisterStep(p, step, r, "createUser")
    /\ UNCHANGED <<users, nextUserID, registers, created>>

\* Register: HashPassword, db.CreateUser, GenerateToken and the 201.
RegisterCreateUser(p, hashOk, dbOk) ==
    /\ regPc[p] = "createUser"
    /\ LET step == "RegisterCreateUser"
           r == regReq[p]
       IN  IF ~hashOk
           THEN /\ RegisterRespond(p, step, r, "StatusInternalServerError",
                                   "Failed to hash password")
                /\ UNCHANGED <<users, nextUserID, created>>
           ELSE IF ~UserInsertOk(dbOk, r.username, r.email, users)
           THEN /\ RegisterRespond(p, step, r, "StatusInternalServerError",
                                   "Failed to create user")
                /\ UNCHANGED <<users, nextUserID, created>>
           ELSE /\ users' = users \cup {[ID |-> nextUserID, Username |-> r.username,
                                         Email |-> r.email]}
                /\ nextUserID' = nextUserID + 1
                /\ created' = [created EXCEPT ![r.username] = @ + 1]
                /\ RegisterRespond(p, step, r, "StatusCreated", "")
    /\ UNCHANGED registers

\* The web form's handleRegister: CreateUserWithCredentials, then a
\* redirect, or the form again with an error.
handleRegister(username, email, dbOk) ==
    /\ registers < MaxRegisters
    /\ registers' = registers + 1
    /\ IF UserInsertOk(dbOk, username, email, users)
       THEN /\ users' = users \cup {[ID |-> nextUserID, Username |-> username,
                                     Email |-> email]}
            /\ nextUserID' = nextUserID + 1
            /\ regLast' = [proc |-> 0, step |-> "handleRegister", username |-> username,
                           email |-> email, status |-> "StatusFound", error |-> ""]
       ELSE /\ UNCHANGED <<users, nextUserID>>
            /\ regLast' = [proc |-> 0, step |-> "handleRegister", username |-> username,
                           email |-> email, status |-> "StatusBadRequest",
                           error |-> "Username or email already exists"]
    /\ UNCHANGED <<regPc, regReq, created>>

RegisterNext ==
    /\ \/ \E p \in Procs, username \in RegUsernames, email \in RegEmails,
             bindOk \in BOOLEAN, dbOk \in BOOLEAN :
                RegisterCheckUsername(p, username, email, bindOk, dbOk)
       \/ \E p \in Procs, dbOk \in BOOLEAN : RegisterCheckEmail(p, dbOk)
       \/ \E p \in Procs, hashOk \in BOOLEAN, dbOk \in BOOLEAN :
             RegisterCreateUser(p, hashOk, dbOk)
       \/ \E username \in RegUsernames, email \in RegEmails, dbOk \in BOOLEAN :
             handleRegister(username, email, dbOk)
    /\ UNCHANGED <<poolVars, wgVars, apiVars, alertVars, monVars, logVars, authVars>>

Init == PoolInit /\ WgInit /\ ApiInit /\ AlertInit /\ MonitorInit /\ LogInit
            /\ AuthInit /\ RegisterInit

SpecPool == Init /\ [][PoolNext]_vars
SpecWg == Init /\ [][WgNext]_vars
SpecApi == Init /\ [][ApiNext]_vars
SpecAlert == Init /\ [][AlertNext]_vars
SpecMonitor == Init /\ [][MonitorNext]_vars
SpecLog == Init /\ [][LogNext]_vars
SpecAuth == Init /\ [][AuthNext]_vars
SpecRegister == Init /\ [][RegisterNext]_vars

(***************************************************************************)
(* C1: over any sequence of AllocateIP, AllocateSpecificIP and ReleaseIP   *)
(* calls, the address AllocateIP is about to return is never the network   *)
(* address, the broadcast address or the server address.                   *)
(***************************************************************************)
C1_NeverReservedAddress ==
    \A c \in Callers :
        (callerPc[c] = "marking" /\ scanned[c] # NoIP)
            => /\ scanned[c] \notin {networkAddress, broadcastAddress, serverIP}
               /\ ParseIP(scanned[c]) \notin
                      {NetworkOff, BroadcastOff, ParseIP(serverIP)}

\* AllocateIP returns the last usable address, the one before broadcast,
\* after earlier calls have filled the addresses below it.
C1_Witness ==
    \E c \in Callers :
        /\ callerPc[c] = "marking"
        /\ scanned[c] = V4(BroadcastOff - 1)
        /\ poolOps >= 4

(***************************************************************************)
(* C2: when several callers invoke AllocateIP concurrently, the address a  *)
(* call is about to return is held by nobody (it is not in the map), and   *)
(* no address is handed out twice without a release of it in between.      *)
(***************************************************************************)
C2_DistinctAllocations ==
    /\ \A ip \in ClientIPs : handedOut[ip] <= 1
    /\ \A c \in Callers :
           (callerPc[c] = "marking" /\ scanned[c] # NoIP)
               => scanned[c] \notin allocated

\* A caller is inside AllocateIP, about to return an address, while another
\* address is out with a caller and the mutex keeps the other caller waiting.
C2_Witness ==
    \E c \in Callers :
        /\ callerPc[c] = "marking"
        /\ mu = c
        /\ scanned[c] # NoIP
        /\ \E ip \in ClientIPs : ip # scanned[c] /\ handedOut[ip] = 1
        /\ \A d \in Callers \ {c} : callerPc[d] = "idle"

C10_AddPeerOnce ==
    (wgLast.op = "AddPeer" /\ ~wgLast.err /\ wgLast.before = 0)
        => Occurrences(GetPeers(file), wgLast.peer) = 1

\* AddPeer has just added a peer to a file that already holds two others
\* and, after a RemovePeer, no longer ends in a newline-terminated stanza
\* of its own.
C10_Witness ==
    /\ wgLast.op = "AddPeer"
    /\ ~wgLast.err
    /\ wgLast.before = 0
    /\ Len(GetPeers(file)) = 3
    /\ Occurrences(GetPeers(file), wgLast.peer) = 1

(***************************************************************************)
(* C4 as stated, at the states where no request is being served: the       *)
(* address of every row of the clients table is marked allocated in the    *)
(* pool, whatever requests were served and whichever of their steps failed.*)
(***************************************************************************)
C4_RowsAllocated ==
    (\A p \in Procs : pc[p] = "idle")
        => \A row \in rows : IsAllocated(row.IPAddress)

(***************************************************************************)
(* C5: when CreateClient answers after a failed insert, the address it     *)
(* allocated is not marked allocated, and if no other request changed the  *)
(* pool meanwhile the allocated map is the one the request found.          *)
(***************************************************************************)
C5_RollbackReleases ==
    lastStep.name = "CreateClientRollback"
        => /\ ~IsAllocated(lastStep.req.ip)
           /\ lastStep.req.alone => allocated = lastStep.req.allocBefore

C5_Witness ==
    /\ lastStep.name = "CreateClientRollback"
    /\ lastStep.req.status = "StatusInternalServerError"
    /\ lastStep.req.alone
    /\ lastStep.req.ip \in ClientIPs
    /\ rows # {}
    /\ allocated = lastStep.req.allocBefore

(***************************************************************************)
(* C6 as stated: when StartServer answers 200, the configuration file has  *)
(* a [Peer] section for every client of the table whose AddPeer had failed *)
(* before that StartServer request began.                                  *)
(***************************************************************************)
C6_ReconciledOnStart ==
    (lastStep.name = "StartServerStart" /\ lastStep.req.status = "StatusOK")
        => \A row \in rows :
              row.PublicKey \in lastStep.req.pending
                  => row.PublicKey \in Keys(GetPeers(file))

(***************************************************************************)
(* C7 as stated: a client is created with address X and deleted (204), and *)
(* the next AllocateIP of a create request, with no AllocateIP between the *)
(* two, is for a client that is then stored: that client has address X.    *)
(***************************************************************************)
C7_DeletedAddressReused ==
    \A row \in rows :
        (reuse.id # 0 /\ row.ID = reuse.id /\ reusePrev.deleted)
            => row.IPAddress = reusePrev.ip

(***************************************************************************)
(* C7 amended: the same, when moreover no address other than X was         *)
(* released between the two AllocateIP calls.                              *)
(***************************************************************************)
C7_DeletedAddressReusedNoRelease ==
    \A row \in rows :
        (reuse.id # 0 /\ row.ID = reuse.id /\ reusePrev.deleted
            /\ ~reusePrev.otherRelease)
            => row.IPAddress = reusePrev.ip

C7_Witness ==
    /\ reusePrev.deleted
    /\ ~reusePrev.otherRelease
    /\ Cardinality(rows) >= 2
    /\ \E row \in rows : row.ID = reuse.id /\ row.IPAddress = reusePrev.ip

(***************************************************************************)
(* C8: a DeleteClient request whose GetClient found the client answers     *)
(* from its db.DeleteClient step only, whatever RemovePeer and ReleaseIP   *)
(* returned; unless db.DeleteClient itself fails the answer is 204 and the *)
(* row is gone.                                                            *)
(***************************************************************************)
C8_DeleteNotBlocked ==
    (lastStep.req.kind = "delete" /\ lastStep.req.found)
        => /\ lastStep.name = "DeleteClientDelete"
           /\ ~lastStep.req.deleteErr
                 => /\ lastStep.req.status = "StatusNoContent"
                    /\ \A row \in rows : row.ID # lastStep.req.id

C8_Witness ==
    /\ lastStep.name = "DeleteClientDelete"
    /\ lastStep.req.rmErr
    /\ lastStep.req.relErr
    /\ lastStep.req.status = "StatusNoContent"
    /\ \A row \in rows : row.ID # lastStep.req.id

(***************************************************************************)
(* C9 as stated: every key whose AddPeer returned nil in a create request, *)
(* since the file was last rewritten by WriteConfig or RemovePeer, has a   *)
(* [Peer] section in the configuration file.                               *)
(***************************************************************************)
C9_NoLostUpdate ==
    \A key \in added : key \in Keys(GetPeers(file))

(***************************************************************************)
(* C11: after RemovePeer(k) returns nil, GetPeers returns no peer whose    *)
(* PublicKey is k, whichever [Peer] section of the file held k.            *)
(***************************************************************************)
C11_RemovedPeerAbsent ==
    (wgLast.op = "RemovePeer" /\ ~wgLast.err)
        => wgLast.peer.PublicKey \notin Keys(GetPeers(file))

C11_Witness ==
    /\ wgLast.op = "RemovePeer"
    /\ ~wgLast.err
    /\ LET before == GetPeers(wgLast.fileBefore)
       IN  /\ Len(before) = 3
           /\ before[1].PublicKey # wgLast.peer.PublicKey
           /\ before[2].PublicKey = wgLast.peer.PublicKey
           /\ before[3].PublicKey # wgLast.peer.PublicKey
    /\ wgLast.peer.PublicKey \notin Keys(GetPeers(file))

(***************************************************************************)
(* C12 as stated: when no peer of the file has PublicKey k, RemovePeer(k)  *)
(* returning nil leaves GetPeers and the [Interface] settings GetConfig    *)
(* reads as they were before the call.                                     *)
(***************************************************************************)
C12_RemoveAbsentIsNoOp ==
    (/\ wgLast.op = "RemovePeer"
     /\ ~wgLast.err
     /\ wgLast.peer.PublicKey \notin Keys(GetPeers(wgLast.fileBefore)))
        => /\ GetPeers(file) = GetPeers(wgLast.fileBefore)
           /\ GetConfig(file) = GetConfig(wgLast.fileBefore)

(***************************************************************************)
(* C13 as stated: after RemovePeer(k) returns nil, GetPeers returns the    *)
(* peers it returned before the call whose PublicKey is not k, with the    *)
(* same fields and in the same order.                                      *)
(***************************************************************************)
C13_OtherPeersKept ==
    (wgLast.op = "RemovePeer" /\ ~wgLast.err)
        => LET Other(peer) == peer.PublicKey # wgLast.peer.PublicKey
           IN  GetPeers(file) = SelectSeq(GetPeers(wgLast.fileBefore), Other)

(***************************************************************************)
(* C14: whenever the file exists, GetConfig returns the PrivateKey,        *)
(* ListenPort and Address of the configuration last written by             *)
(* WriteConfig, whatever AddPeer and RemovePeer calls followed.            *)
(***************************************************************************)
C14_ConfigRoundTrip ==
    file.exists
        => /\ GetConfig(file).PrivateKey = written.PrivateKey
           /\ GetConfig(file).ListenPort = written.ListenPort
           /\ GetConfig(file).Address = written.Address

C14_Witness ==
    /\ wgLast.op = "RemovePeer"
    /\ ~wgLast.err
    /\ Len(GetPeers(wgLast.fileBefore)) = 3
    /\ file # wgLast.fileBefore
    /\ GetConfig(file).PrivateKey = written.PrivateKey
    /\ GetConfig(file).ListenPort = written.ListenPort
    /\ GetConfig(file).Address = written.Address
    /\ Len(written.PostUp) = 2

(***************************************************************************)
(* C15: when a run of n successful allocations (AllocateIP or              *)
(* AllocateSpecificIP) has been followed by successful releases of exactly *)
(* the n strings allocated, in any order, GetAvailableCount is what it was *)
(* before the first allocation of the run.                                 *)
(***************************************************************************)
C15_CountRestored ==
    (run.phase = "releasing" /\ run.out = {}) => GetAvailableCount = run.start

C15_Witness ==
    /\ run.phase = "releasing"
    /\ run.out = {}
    /\ run.n >= 3
    /\ lastPool.op = "ReleaseIP"
    /\ lastPool.arg = V4(incrementIP(NetworkOff, 2))
    /\ GetAvailableCount = run.start

(***************************************************************************)
(* C16: a pool of 2^HostBits addresses has totalHosts = 2^HostBits - 2 and *)
(* GetAvailableCount = totalHosts - 1 after construction, and when only    *)
(* AllocateIP has been called the k-th call succeeds exactly when          *)
(* k <= totalHosts - 1, failing with the exhausted error otherwise; for    *)
(* 10.0.0.0/29 these are 6, 5 and 5 calls.                                 *)
(***************************************************************************)
C16_PoolCapacity ==
    /\ totalHosts = NetworkSize - 2
    /\ HostBits = 3 => totalHosts = 6
    /\ poolOps = 0 =>
          /\ GetAvailableCount = totalHosts - 1
          /\ HostBits = 3 => GetAvailableCount = 5
    /\ (onlyAllocate /\ lastPool.op = "AllocateIP") =>
          /\ poolOps <= totalHosts - 1 => lastPool.err = "ok"
          /\ poolOps > totalHosts - 1 =>
                lastPool.err = "no available IP addresses in pool"

C16_Witness ==
    /\ HostBits = 3
    /\ onlyAllocate
    /\ poolOps = 6
    /\ lastPool.op = "AllocateIP"
    /\ lastPool.err = "no available IP addresses in pool"
    /\ GetAvailableCount = 0

(***************************************************************************)
(* C17 as stated: AllocateSpecificIP(ip) returns the error of the first of *)
(* these cases that applies, each with its own error, and leaves the map   *)
(* alone: ip does not parse, ip is outside the network, ip is the network  *)
(* address, the broadcast address, the server address, ip is already       *)
(* allocated; in every other case it returns nil and adds exactly ip.      *)
(***************************************************************************)
C17_AllocateSpecificCases ==
    [][\A c \in Callers, ip \in InputIPs :
          AllocateSpecificIP(c, ip) =>
              LET expected ==
                      IF ParseIP(ip) = -1 THEN "invalid IP address"
                      ELSE IF ~Contains(ParseIP(ip))
                      THEN "IP address not in network range"
                      ELSE IF ParseIP(ip) = ParseIP(networkAddress)
                      THEN "cannot allocate network address"
                      ELSE IF ParseIP(ip) = ParseIP(broadcastAddress)
                      THEN "cannot allocate broadcast address"
                      ELSE IF ParseIP(ip) = ParseIP(serverIP)
                      THEN "IP address reserved for server"
                      ELSE IF IsAllocated(ip) THEN "IP address already allocated"
                      ELSE "ok"
              IN  /\ lastPool'.err = expected
                  /\ allocated' = IF expected = "ok" THEN allocated \cup {ip}
                                  ELSE allocated]_vars

(***************************************************************************)
(* C18 as stated: ReleaseIP(ip) returns an error and leaves the map alone  *)
(* when ip is not an address of the network, is not allocated, or is the   *)
(* server address; in every other case it returns nil, ip is no longer     *)
(* allocated, and the address is free for AllocateIP and                   *)
(* AllocateSpecificIP.                                                     *)
(***************************************************************************)
C18_ReleaseCases ==
    [][\A c \in Callers, ip \in InputIPs \cup allocated :
          ReleaseIP(c, ip) =>
              LET mustFail == \/ ParseIP(ip) = -1
                              \/ ~Contains(ParseIP(ip))
                              \/ ~IsAllocated(ip)
                              \/ ParseIP(ip) = ParseIP(serverIP)
              IN  IF mustFail
                  THEN lastPool'.err # "ok" /\ allocated' = allocated
                  ELSE /\ lastPool'.err = "ok"
                       /\ allocated' = allocated \ {ip}
                       /\ AllocateSpecificIPErr(ip, allocated') = "ok"]_vars

\* C19: the alerts the manager returns never hold two alerts with one id;
\* and when an evaluation finds a rule's condition holding while the alert
\* of that id is active, the alert is the same one afterwards (same id, same
\* creation time, still active), its count is one higher and its updated_at
\* is the time of the evaluation.
C19_OneAlertPerId ==
    /\ [](\A x \in AllAlerts(alerts, NoTime), y \in AllAlerts(alerts, NoTime) :
              x.ID = y.ID => x = y)
    /\ [](\A id \in DOMAIN alerts : alerts[id].ID = id)
    /\ [][\A metrics \in MetricsInputs :
             EvaluateMetrics(metrics) /\ alertConfig.EnableAlerts =>
                 \A id \in DOMAIN alerts :
                     (alerts[id].Status = "active" /\ RuleFires(id, metrics, alertConfig)) =>
                         /\ id \in DOMAIN alerts'
                         /\ alerts'[id].Count = alerts[id].Count + 1
                         /\ alerts'[id].UpdatedAt = clock
                         /\ alerts'[id].CreatedAt = alerts[id].CreatedAt
                         /\ alerts'[id].Status = "active"
                         /\ Cardinality({x \in AllAlerts(alerts', NoTime) :
                                             x.ID = id}) = 1
                         /\ Cardinality({x \in ActiveAlerts(alerts') :
                                             x.ID = id}) = 1]_vars

C19_Witness ==
    /\ amLast.op = "EvaluateMetrics"
    /\ alertConfig.EnableAlerts
    /\ amLast.now > 0
    /\ \E id \in DOMAIN amLast.before :
          /\ amLast.before[id].Status = "active"
          /\ RuleFires(id, amLast.arg, alertConfig)
          /\ id \in DOMAIN alerts
          /\ alerts[id].Count = 2
          /\ alerts[id].UpdatedAt = amLast.now
          /\ alerts[id].CreatedAt < amLast.now

\* C20: when an evaluation finds a rule's condition not holding while the
\* alert of that id is active, the alert is resolved afterwards with
\* resolved_at the time of the evaluation, is not among the active alerts,
\* and is among all alerts since any time before its creation.
C20_ClearedAlertResolved ==
    [][\A metrics \in MetricsInputs :
          EvaluateMetrics(metrics) /\ alertConfig.EnableAlerts =>
              \A id \in DOMAIN alerts :
                  (alerts[id].Status = "active" /\ ~RuleFires(id, metrics, alertConfig)) =>
                      /\ id \in DOMAIN alerts'
                      /\ alerts'[id].Status = "resolved"
                      /\ alerts'[id].ResolvedAt = clock
                      /\ \A x \in ActiveAlerts(alerts') : x.ID # id
                      /\ \A since \in NoTime..(alerts[id].CreatedAt - 1) :
                            \E x \in AllAlerts(alerts', since) :
                                x.ID = id /\ x.Status = "resolved"
                                          /\ x.ResolvedAt = clock]_vars

C20_Witness ==
    /\ amLast.op = "EvaluateMetrics"
    /\ alertConfig.EnableAlerts
    /\ \E id \in DOMAIN amLast.before :
          /\ amLast.before[id].Status = "active"
          /\ amLast.before[id].Count = 2
          /\ ~RuleFires(id, amLast.arg, alertConfig)
          /\ id \in DOMAIN alerts
          /\ alerts[id].Status = "resolved"
          /\ alerts[id].ResolvedAt = amLast.now
          /\ alerts[id].CreatedAt < amLast.now
          /\ GetActiveAlerts = {}
          /\ alerts[id] \in GetAllAlerts(NoTime)

\* C21: after an evaluation that finds the pool utilisation above 95, the
\* active alert network_ip_pool_high has severity high; after one that finds
\* it above 90 and not above 95, the active alert has severity medium;
\* whatever earlier evaluations found.
C21_PoolSeverityFollowsUtilisation ==
    [][\A metrics \in MetricsInputs :
          EvaluateMetrics(metrics) /\ alertConfig.EnableAlerts =>
              \A x \in ActiveAlerts(alerts') :
                  x.ID = "network_ip_pool_high" =>
                      /\ metrics.IPPoolUtilization > 95 => x.Severity = "high"
                      /\ (metrics.IPPoolUtilization > 90 /\ metrics.IPPoolUtilization <= 95)
                            => x.Severity = "medium"]_vars

\* C22: ResolveAlert(id) returns an error and leaves the alert map as it
\* was when id is not in the map or its alert is already resolved; in every
\* other case it returns nil, the alert of id is resolved with resolved_at
\* the time of the call, and no other alert changes.
C22_ResolveCases ==
    [][\A alertID \in AlertIDs :
          ResolveAlert(alertID) =>
              IF alertID \notin DOMAIN alerts \/ alerts[alertID].Status = "resolved"
              THEN amLast'.err # "ok" /\ alerts' = alerts
              ELSE /\ amLast'.err = "ok"
                   /\ DOMAIN alerts' = DOMAIN alerts
                   /\ alerts'[alertID].Status = "resolved"
                   /\ alerts'[alertID].ResolvedAt = clock
                   /\ \A id \in DOMAIN alerts \ {alertID} : alerts'[id] = alerts[id]]_vars

C22_Witness ==
    /\ amLast.op = "ResolveAlert"
    /\ amLast.err = "ok"
    /\ amLast.arg \in DOMAIN amLast.before
    /\ amLast.before[amLast.arg].Status = "suppressed"
    /\ alerts[amLast.arg].Status = "resolved"
    /\ alerts[amLast.arg].ResolvedAt = amLast.now
    /\ amLast.now > alerts[amLast.arg].CreatedAt

\* C23: after SuppressAlert(id, d) on an alert that exists, the alert has
\* status suppressed, its metadata holds suppressed_until = time of the
\* call + d, it is not among the active alerts and it is among all alerts
\* since any time before its creation.
C23_SuppressedHidden ==
    [][\A alertID \in AlertIDs, duration \in SuppressDurations :
          (SuppressAlert(alertID, duration) /\ alertID \in DOMAIN alerts) =>
              /\ amLast'.err = "ok"
              /\ alertID \in DOMAIN alerts'
              /\ alerts'[alertID].Status = "suppressed"
              /\ "suppressed_until" \in DOMAIN alerts'[alertID].Metadata
              /\ alerts'[alertID].Metadata["suppressed_until"] = clock + duration
              /\ \A x \in ActiveAlerts(alerts') : x.ID # alertID
              /\ \A since \in NoTime..(alerts[alertID].CreatedAt - 1) :
                    alerts'[alertID] \in AllAlerts(alerts', since)]_vars

C23_Witness ==
    /\ amLast.op = "SuppressAlert"
    /\ amLast.err = "ok"
    /\ amLast.before[amLast.arg].Status = "active"
    /\ alerts[amLast.arg].Status = "suppressed"
    /\ alerts[amLast.arg].Metadata["suppressed_until"] > amLast.now
    /\ alerts[amLast.arg].CreatedAt > 0
    /\ alerts[amLast.arg] \notin GetActiveAlerts
    /\ alerts[amLast.arg] \in GetAllAlerts(0)

\* C25: an evaluation removes from the alert map exactly the alerts that
\* are resolved with resolved_at more than 24 hours before the time of the
\* evaluation.
C25_CleanupExactlyOld ==
    [][\A metrics \in MetricsInputs :
          EvaluateMetrics(metrics) /\ alertConfig.EnableAlerts =>
              DOMAIN alerts \ DOMAIN alerts' =
                  {id \in DOMAIN alerts : /\ alerts[id].Status = "resolved"
                                           /\ alerts[id].ResolvedAt # NoTime
                                           /\ clock - alerts[id].ResolvedAt > Hours24}]_vars

C25_Witness ==
    /\ amLast.op = "EvaluateMetrics"
    /\ alertConfig.EnableAlerts
    /\ \E id \in DOMAIN amLast.before :
          /\ amLast.before[id].Status = "resolved"
          /\ amLast.now - amLast.before[id].ResolvedAt > Hours24
          /\ id \notin DOMAIN alerts
    /\ \E id \in DOMAIN amLast.before :
          /\ amLast.before[id].Status = "active"
          /\ id \in DOMAIN alerts

\* C24: at an evaluation later than the suppressed_until of a suppressed
\* alert, the alert stops being suppressed; if SuppressAlert found it active
\* and its rule's condition holds at this evaluation, it is among the active
\* alerts afterwards.
C24_SuppressionExpires ==
    [][\A metrics \in MetricsInputs :
          EvaluateMetrics(metrics) /\ alertConfig.EnableAlerts =>
              \A id \in DOMAIN alerts :
                  (/\ alerts[id].Status = "suppressed"
                   /\ clock > alerts[id].Metadata["suppressed_until"]) =>
                      /\ id \in DOMAIN alerts' => alerts'[id].Status # "suppressed"
                      /\ (suppressedFrom[id] = "active" /\ RuleFires(id, metrics, alertConfig))
                            => \E x \in ActiveAlerts(alerts') : x.ID = id]_vars

\* C26: Start on a running monitor returns an error and spawns no
\* goroutine, and at no time are two monitorLoop goroutines alive.
C26_SingleTask ==
    /\ [](Cardinality(AliveTasks) <= 1)
    /\ [][\A ctx \in Contexts :
             (Start(ctx) /\ running) => (monLast'.err # "ok" /\ tasks' = tasks)]_vars

\* C27: when Stop returns nil every monitorLoop goroutine spawned before
\* it has exited, and none of them collects metrics or evaluates alerts
\* afterwards.
C27_StopAwaitsTask ==
    /\ [][(Stop /\ running) =>
             \A t \in 1..Len(tasks') : tasks'[t].pc = "exited"]_vars
    /\ [][\A t \in 1..Len(tasks) :
             ((\E sample \in MonitorSamples : TaskCollectMetrics(t, sample))
                  \/ TaskProcessAlerts(t)) => t > stopped]_vars

C29_ClosedAtMostOnce ==
    /\ [](closes <= 1 /\ ~panicked)
    /\ [][(Stop /\ stopCh = "closed") =>
             (stopCh' = "closed" /\ closes' = closes /\ tasks' = tasks)]_vars

C29_Witness ==
    /\ monLast.op = "Stop"
    /\ monLast.err = "ok"
    /\ Len(tasks) = 2
    /\ stopped = 2
    /\ closes = 1
    /\ stopCh = "closed"

\* C30: a change a caller makes to the value GetMetrics returned to it
\* changes neither what the monitor reads through Monitor.metrics nor what
\* another caller reads through the value returned to it.
C30_ReturnedCopyIsDeep ==
    [][\A c \in MonitorCallers :
          (\/ CallerSetStatus(c)
           \/ \E i \in 1..2 : CallerSetAlert(c, i)
           \/ \E i \in 1..2 : CallerSetMetadata(c, i)) =>
              /\ MetricsView(monMetrics', arrays', alerts') =
                     MetricsView(monMetrics, arrays, alerts)
              /\ \A o \in MonitorCallers \ {c} :
                    MetricsView(returned'[o], arrays', alerts') =
                        MetricsView(returned[o], arrays, alerts)]_vars

C36_FiringRuleHasActiveAlert ==
    [][\A metrics \in MetricsInputs :
          EvaluateMetrics(metrics) /\ alertConfig.EnableAlerts =>
              \A id \in AlertIDs :
                  RuleFires(id, metrics, alertConfig) =>
                      \/ \E x \in ActiveAlerts(alerts') : x.ID = id
                      \/ /\ id \in DOMAIN alerts'
                         /\ alerts'[id].Status = "suppressed"]_vars

(***************************************************************************)
(* C37: a monitor can be restarted.  After Start, Stop and a second Start  *)
(* that returns nil, the goroutine of the second Start is alive for as     *)
(* long as no further Stop has run and its context is not cancelled.       *)
(* (running is cleared only by Stop, so running with two goroutines        *)
(* launched says that the last Start succeeded after a Stop and that no    *)
(* Stop followed it.)                                                      *)
(***************************************************************************)
C37_RestartedTaskAlive ==
    (/\ running
     /\ Len(tasks) >= 2
     /\ tasks[Len(tasks)].ctx \notin cancelled) => Alive(Len(tasks))

(***************************************************************************)
(* C38: whenever m.running is true (Start and Stop hold the mutex for      *)
(* their whole body, so between steps none is in progress), a monitorLoop  *)
(* goroutine is alive; and a Start made when no goroutine is alive, the    *)
(* last one having returned on its cancelled context, returns nil.         *)
(***************************************************************************)
C38_RunningMeansTaskAlive ==
    /\ [](running => AliveTasks # {})
    /\ [][\A ctx \in Contexts :
             (Start(ctx) /\ AliveTasks = {}) => monLast'.err = "ok"]_vars

(***************************************************************************)
(* C39: when delete requests for one client run concurrently with create   *)
(* requests, a delete request never releases an address that is by then    *)
(* the address of a different client: whenever DeleteClient's ReleaseIP    *)
(* removes an address from the pool, no row of another client holds it.    *)
(***************************************************************************)
C39_DeleteReleasesOwnAddress ==
    [][\A p \in Procs :
          (DeleteClientReleaseIP(p) /\ ReleaseIPErr(req[p].ip, allocated) = "ok") =>
              ~\E row \in rows :
                  row.ID # req[p].id /\ row.IPAddress = req[p].ip]_vars

(***************************************************************************)
(* C40: the log buffer never holds more than bufferSize entries, and       *)
(* after any sequence of Log calls on a manager whose bufferSize was not   *)
(* changed it holds exactly the most recent min(number logged, bufferSize) *)
(* entries, in the order they were logged, which GetRecentLogs returns.    *)
(***************************************************************************)
C40_BufferBounded ==
    /\ Len(logBuffer) <= bufferSize
    /\ ~resized =>
          /\ logBuffer = SubSeq(logged, Len(logged) - Min2(Len(logged), bufferSize) + 1,
                                Len(logged))
          /\ lmLast.op = "GetRecentLogs" /\ lmLast.arg > MaxBufferSize
                => recent = logBuffer

(***************************************************************************)
(* C31: a request behind RequireAuth reaches its handler only if its       *)
(* Authorization header is "Bearer " followed by a non-empty token that    *)
(* ValidateToken accepts, the handler then seeing the token's user; a      *)
(* missing header, another scheme, an empty token and an invalid or        *)
(* expired token are each answered 401 without reaching the handler, and   *)
(* requests rejected for different ones of these four reasons carry        *)
(* different error messages.                                               *)
(***************************************************************************)
C31_RequireAuthGate ==
    [][\A am \in Managers, h \in AuthHeaders :
          RequireAuth(am, h) =>
              LET Kind(x) ==
                      IF x = NoHeader THEN "missing"
                      ELSE IF x.prefix # "Bearer " THEN "scheme"
                      ELSE IF x.token = EmptyToken THEN "empty"
                      ELSE IF ValidateTokenAt(am, x.token, authClock).err # "ok"
                           THEN "invalid"
                      ELSE "valid"
                  r == authLast'.result
              IN  /\ r.next <=> Kind(h) = "valid"
                  /\ r.next =>
                        LET c == ValidateTokenAt(am, h.token, authClock).claims
                        IN  /\ r.status = "StatusOK"
                            /\ r.user_id = c.UserID
                            /\ r.username = c.Username
                  /\ ~r.next =>
                        /\ r.status = "StatusUnauthorized"
                        /\ r.error # ""
                        /\ \A h2 \in AuthHeaders :
                              Kind(h2) \notin {"valid", Kind(h)} =>
                                  RequireAuthAt(am, h2, authClock).error # r.error]_vars

\* C31 witness: a request carrying, as a Bearer token, a token this manager's
\* secret signed and that has expired was answered 401.
C31_Witness ==
    /\ authLast.op = "RequireAuth"
    /\ authLast.result.status = "StatusUnauthorized"
    /\ authLast.arg.prefix = "Bearer "
    /\ \E i \in issued :
          /\ i.token = authLast.arg.token
          /\ i.secret = authLast.am.jwtSecret
          /\ authLast.now > i.at + i.life

(***************************************************************************)
(* C32: validating a token GenerateToken(userID, username) produced, with  *)
(* a manager of the same secret and before the token's expires_at, returns *)
(* no error and claims carrying that userID and that username.             *)
(***************************************************************************)
C32_GenerateValidateRoundTrip ==
    [][\A am \in Managers, token \in PresentedTokens :
          ValidateToken(am, token) =>
              \A i \in issued :
                  (/\ i.token = token
                   /\ i.secret = am.jwtSecret
                   /\ authClock < NewNumericDate(i.at + i.life)) =>
                      /\ authLast'.result.err = "ok"
                      /\ authLast'.result.claims.UserID = i.UserID
                      /\ authLast'.result.claims.Username = i.Username]_vars

\* C32 witness: a token for the user whose name needs escaping was validated
\* some time after it was generated, and accepted.
C32_Witness ==
    /\ authLast.op = "ValidateToken"
    /\ authLast.result.err = "ok"
    /\ authLast.result.claims.Username = <<"a", "<">>
    /\ \E i \in issued : i.token = authLast.arg /\ authLast.now > i.at

(***************************************************************************)
(* C33: at every time later than its lifetime after it was generated, a    *)
(* token is rejected by ValidateToken as expired, and RefreshToken of it   *)
(* returns an error and issues nothing.                                    *)
(***************************************************************************)
C33_ExpiredRejected ==
    [][\A am \in Managers, token \in PresentedTokens :
          (\E i \in issued : /\ i.token = token
                             /\ i.secret = am.jwtSecret
                             /\ authClock > i.at + i.life) =>
              /\ ValidateToken(am, token) =>
                    authLast'.result.err = "failed to parse token: token is expired"
              /\ RefreshToken(am, token) =>
                    /\ authLast'.result.err # "ok"
                    /\ issued' = issued]_vars

\* C33 witness: RefreshToken was refused for a token of this manager's secret
\* whose lifetime had passed.
C33_Witness ==
    /\ authLast.op = "RefreshToken"
    /\ authLast.result.err # "ok"
    /\ \E i \in issued :
          /\ i.token = authLast.arg
          /\ i.secret = authLast.am.jwtSecret
          /\ authLast.now > i.at + i.life

(***************************************************************************)
(* C34: a Register request whose username lookup finds an existing user    *)
(* is answered 409 "Username already exists" and ends there, creating no   *)
(* user; a user is only ever added under a username no user holds; and     *)
(* for every username at most one Register request is answered 201.        *)
(***************************************************************************)
C34_DuplicateUsernameConflict ==
    /\ [](\A n \in RegUsernames : created[n] <= 1)
    /\ [](\A u, v \in users : u.Username = v.Username => u = v)
    /\ [][\A p \in Procs, username \in RegUsernames, email \in RegEmails :
             (/\ RegisterCheckUsername(p, username, email, TRUE, TRUE)
              /\ \E u \in users : u.Username = username) =>
                 /\ regLast'.status = "StatusConflict"
                 /\ regLast'.error = "Username already exists"
                 /\ regPc'[p] = "idle"
                 /\ users' = users]_vars

\* C34 witness: the second of two Register requests with one username and
\* different emails was answered 409, the first having been answered 201.
C34_Witness ==
    /\ regLast.status = "StatusConflict"
    /\ regLast.error = "Username already exists"
    /\ created[regLast.username] = 1
    /\ \E u \in users : u.Username = regLast.username /\ u.Email # regLast.email

====
